---- MODULE Spec2Model ----
(***************************************************************************)
(* A model of the LSP client core of mcp-rust-analyzer (src/lsp_client.rs) *)
(* as it is used through the client mutex of the analyzer facade           *)
(* (src/analyzer.rs).                                                      *)
(*                                                                         *)
(* Caller tasks invoke one client method at a time.  Every client method   *)
(* takes `&mut self` and the facade keeps the client inside                *)
(* Arc<Mutex<Option<LspClient>>>, holding the guard for the whole call, so *)
(* a caller owns the client from the first to the last step of a method.   *)
(* The reader task and the backend process run beside the callers.         *)
(***************************************************************************)
EXTENDS Integers, Sequences, FiniteSets, TLC

\* ------------------------------------------------------------------ bounds
NumCallers == 2
MaxId == 3
MaxProc == 2
MaxVals == 2
NumFCallers == 1
MaxClients == 2
MaxLine == 10
MaxColumn == 5

\* Half of the width of a u32: 2^16.
Half == 65536

Callers == 1..NumCallers
Ids == 1..MaxId
Pids == 1..MaxProc

\* ------------------------------------------------------- program constants
\* AtomicU64::new(1): the first request id.
FirstRequestId == 1

\* The methods sent by the per-operation wrappers of LspClient.
PerOpMethods ==
    { "textDocument/hover", "textDocument/completion",
      "textDocument/references", "textDocument/rename",
      "textDocument/signatureHelp", "textDocument/implementation",
      "textDocument/publishDiagnostics", "textDocument/codeAction" }

\* The wrappers the caller tasks of this model call: all wrappers have the
\* one body `self.send_request(<method>, params).await`.
CalledMethods == { "textDocument/hover", "textDocument/codeAction" }

InitializeMethod == "initialize"
ShutdownMethod == "shutdown"

\* What a caller may invoke on the client.
Ops == {InitializeMethod, ShutdownMethod} \cup CalledMethods

VARIABLES
    \* ---- fields of LspClient
    initialized,      \* self.initialized
    process,          \* self.process: 0 is None, else the pid of the Child held
    stdin,            \* self.stdin: 0 is None, else the pid whose stdin it is
    request_id,       \* self.request_id: the next id fetch_add will hand out
    response_map,     \* keys of self.response_map (each key holds one Sender)
    reader_handle,    \* self._reader_handle: 0 is None, else the reader's pid
    stdin_lock,       \* holder of the Mutex around ChildStdin, 0 when free
    \* ---- the environment of the client
    spawned,          \* number of backend processes spawned so far
    procs,            \* pid -> "unborn" | "running" | "exited"
    readers,          \* pid -> "none" | "running" | "stopped" | "aborted"
    wire,             \* pid -> the units in the pipe to that process's stdin
    msgs,             \* pid -> the messages write_message wrote to that pipe
    \* ---- the one-shot channel of each request id
    chan,             \* id -> "none" | "open" | "ok" | "err" | "closed" | "gone"
    \* ---- the caller tasks
    owner,            \* holder of the client (facade mutex / &mut self), 0 when free
    pc,               \* caller -> position
    op,               \* caller -> the method being run ("none" when idle)
    rid,              \* caller -> id of the request it is sending (0: none)
    res,              \* caller -> outcome of its send_request / of its method
    \* ---- history
    issued,           \* the ids handed out by fetch_add, in order
    prev_shutdown,    \* whether the last call that returned was shutdown()
    ever_initialized, \* whether self.initialized has ever been true
    miss,             \* the last frame a reader found no Sender for:
                      \* "none" | "unknown" | "late" | "dup"
    sd,               \* what the shutdown() in progress went through:
                      \* [req, exit, wait], "none" where not there yet
    timed_out,        \* whether a request has timed out since the process
                      \* was started
    \* ---- one stream at byte level (the framing of write_message and
    \* ---- reader_task)
    fr_vals,          \* the JSON values handed to write_message, in order
    fr_next,          \* index of the value write_message is writing
    fr_wpos,          \* "header" | "body": what write_message writes next
    fr_stream,        \* the bytes written and not yet read
    fr_phase,         \* "headers" | "content": where reader_task is
    fr_cl,            \* headers.get("Content-Length"): [set, v]
    fr_out,           \* the values reader_task decoded, in order
    \* ---- the facade RustAnalyzer and the clients it creates
    use_lsp,          \* self.use_lsp
    lsp_client,       \* the slot self.lsp_client: 0 is None, else a client
    guard,            \* holder of the Mutex of the slot, 0 when free
    cl,               \* client -> [st, init, held, proc]: where the client
                      \* is ("unborn" | "local" | "stored" | "dropped"),
                      \* self.initialized, self.process.is_some(), and its
                      \* process ("none" | "running" | "exited" | "killed"
                      \* | "gone")
    created,          \* number of clients created by LspClient::new
    fpc,              \* facade task -> position
    fop,              \* facade caller -> the operation it runs
    fcl,              \* facade task -> the client it is initializing
    fres,             \* facade caller -> what its operation returned
    dropped,          \* whether the facade has been dropped
    sd_cl,            \* the client owned by the task spawned in drop
    sd_pc,            \* position of that task ("none" when not spawned)
    \* ---- history of the facade
    found_none,       \* caller -> its operation found no client in the slot
    found_dead,       \* caller -> its operation found a client whose
                      \* process was not running
    attempted,        \* caller -> its operation created a client
    lazy_failed,      \* whether a lazy initialization has failed
    \* ---- the position an operation is called with and the one it sends
    co_op,            \* the operation
    co_line,          \* its line argument (u32)
    co_column,        \* its column argument (u32)
    co_sent,          \* what became of its params: not built, sent, panic
    \* ---- one request line handled by McpServer::handle_request
    json_value,       \* the request line as parsed
    reply,            \* what handle_request gave back for it
    handled,          \* the command handlers it invoked
    \* ---- one hover response of the backend and the text made of it
    hv_result,        \* the result of client.hover(params)
    hv_text,          \* what RustAnalyzer::hover returned for it
    \* ---- one position-based operation and what it writes to the backend
    do_pc,            \* how many of its two client calls it has made
    do_op,            \* the operation
    do_file,          \* its target file
    do_log,           \* the messages it has written, in order
    do_alive,         \* the backend takes writes
    backend_open,     \* the files the backend has been told are open
    \* ---- the pipe to the backend's stdin
    stalled           \* the process that does not read its stdin while its
                      \* pipe is full (0: none)

client == <<initialized, process, stdin, request_id, response_map,
            reader_handle, stdin_lock>>
env == <<spawned, procs, readers, wire, msgs>>
chans == <<chan>>
tasks == <<owner, pc, op, rid, res>>
hist == <<issued, prev_shutdown, ever_initialized, miss>>
frame == <<fr_vals, fr_next, fr_wpos, fr_stream, fr_phase, fr_cl, fr_out>>
ghost == <<sd, timed_out>>
facade == <<use_lsp, lsp_client, guard, cl, created, fpc, fop, fcl, fres,
            dropped, sd_cl, sd_pc, found_none, found_dead, attempted,
            lazy_failed>>
coord == <<co_op, co_line, co_column, co_sent>>
dispatch == <<json_value, reply, handled>>
hovers == <<hv_result, hv_text>>
opens == <<do_pc, do_op, do_file, do_log, do_alive, backend_open>>
pipes == <<stalled>>
vars == <<client, env, chans, tasks, hist, ghost, frame, facade, coord,
          dispatch, hovers, opens, pipes>>

\* --------------------------------------------------------------- messages
\* json!({"jsonrpc","id","method","params"}): a request carries an id.
Request(m, k) == [method |-> m, id |-> k]
\* json!({"jsonrpc","method","params"}): a notification carries none (id 0 here).
Notification(m) == [method |-> m, id |-> 0]

\* The serialized content of a message, as a sequence of units.
IdUnit(k) == [t |-> "id", n |-> k, s |-> ""]
MethodUnit(m) == [t |-> "method", n |-> 0, s |-> m]
Content(msg) ==
    IF msg.id # 0 THEN <<IdUnit(msg.id), MethodUnit(msg.method)>>
    ELSE <<MethodUnit(msg.method)>>

\* format!("Content-Length: {}\r\n\r\n", content.len()): the header unit.
HeaderLenSkewed(content) == Len(content) + 1
HeaderLen(content) == Len(content)
Header(content) == [t |-> "H", n |-> HeaderLen(content), s |-> ""]

\* What a decoder reading by Content-Length sees on a stream of units:
\* [frames, rest, ok]; rest is an incomplete last frame, ok is FALSE when a
\* frame does not start with a header.
RECURSIVE Frames(_)
Frames(w) ==
    IF w = <<>> THEN [frames |-> <<>>, rest |-> <<>>, ok |-> TRUE]
    ELSE IF Head(w).t # "H" THEN [frames |-> <<>>, rest |-> w, ok |-> FALSE]
    ELSE IF Len(w) - 1 < Head(w).n THEN [frames |-> <<>>, rest |-> w, ok |-> TRUE]
    ELSE LET body == SubSeq(w, 2, 1 + Head(w).n)
             more == Frames(SubSeq(w, 2 + Head(w).n, Len(w)))
         IN  [frames |-> <<body>> \o more.frames, rest |-> more.rest, ok |-> more.ok]

\* No shutdown() is in progress.
NoShutdown == [req |-> "none", exit |-> "none", wait |-> "none"]

\* ------------------------------------------------------------------- Init
\* LspClient::new, with no caller running and no process spawned.
ClientInit ==
    /\ stalled = 0
    /\ initialized = FALSE
    /\ process = 0
    /\ stdin = 0
    /\ request_id = FirstRequestId
    /\ response_map = {}
    /\ reader_handle = 0
    /\ stdin_lock = 0
    /\ spawned = 0
    /\ procs = [p \in Pids |-> "unborn"]
    /\ readers = [p \in Pids |-> "none"]
    /\ wire = [p \in Pids |-> <<>>]
    /\ msgs = [p \in Pids |-> <<>>]
    /\ chan = [k \in Ids |-> "none"]
    /\ owner = 0
    /\ pc = [c \in Callers |-> "lock"]
    /\ op = [c \in Callers |-> "none"]
    /\ rid = [c \in Callers |-> 0]
    /\ res = [c \in Callers |-> "none"]
    /\ issued = <<>>
    /\ prev_shutdown = FALSE
    /\ ever_initialized = FALSE
    /\ miss = "none"
    /\ sd = NoShutdown
    /\ timed_out = FALSE

\* No byte was written and reader_task is at the top of its loop.
FrameStart ==
    /\ fr_next = 1
    /\ fr_wpos = "header"
    /\ fr_stream = <<>>
    /\ fr_phase = "headers"
    /\ fr_cl = [set |-> FALSE, v |-> <<>>]
    /\ fr_out = <<>>

\* The tasks that use one facade: callers of its operations, and the
\* background tasks spawned by start_lsp_initialization.
FCallers == 1..NumFCallers
\* The background initialization: one task at a time (BgAgain lets the
\* MCP initialize request start it again once it has ended).
BgTasks == {NumFCallers + 1}
FTasks == FCallers \cup BgTasks
Cids == 1..MaxClients

\* A client that LspClient::new has not made yet.
NoClient == [st |-> "unborn", init |-> FALSE, held |-> FALSE, proc |-> "none"]

\* The facade after RustAnalyzer::new, with no operation running.
FacadeStart ==
    /\ lsp_client = 0
    /\ guard = 0
    /\ cl = [k \in Cids |-> NoClient]
    /\ created = 0
    /\ fpc = [t \in FTasks |-> "idle"]
    /\ fop = [t \in FTasks |-> "none"]
    /\ fcl = [t \in FTasks |-> 0]
    /\ fres = [t \in FTasks |-> "none"]
    /\ dropped = FALSE
    /\ sd_cl = 0
    /\ sd_pc = "none"
    /\ found_none = [t \in FCallers |-> FALSE]
    /\ found_dead = [t \in FCallers |-> FALSE]
    /\ attempted = [t \in FCallers |-> FALSE]
    /\ lazy_failed = FALSE

\* No position has been built.
NotSent == [st |-> "none"]

\* An operation called with (1, 1) that has not built its params.
CoordStart ==
    /\ co_op = "hover"
    /\ co_line = [hi |-> 0, lo |-> 1]
    /\ co_column = [hi |-> 0, lo |-> 1]
    /\ co_sent = NotSent

\* No request line has been read.
NoRequest == [line |-> "none"]
NoReply == [st |-> "none"]
DispatchStart ==
    /\ json_value = NoRequest
    /\ reply = NoReply
    /\ handled = {}

\* No hover response has been received.
NoHover == [shape |-> "none"]
HoverStart ==
    /\ hv_result = NoHover
    /\ hv_text = NoHover

\* No operation is under way and the backend has been told of no file.
OpenStart ==
    /\ do_pc = 0
    /\ do_op = "none"
    /\ do_file = "none"
    /\ do_log = <<>>
    /\ do_alive = TRUE
    /\ backend_open = {}

Init ==
    /\ ClientInit /\ fr_vals = <<>> /\ FrameStart /\ use_lsp = TRUE
    /\ FacadeStart /\ CoordStart /\ DispatchStart /\ HoverStart /\ OpenStart

\* ---------------------------------------------------------- caller tasks
\* A caller task that does not hold the client has called an operation and
\* waits for the guard of the client ("lock"); which method it runs is
\* looked at when it gets the guard.

\* self.lsp_client.lock().await: the guard is held until the method returns.
\* (The bounds on ids and processes are applied here, before a call starts.)
Acquire(c, o) ==
    /\ pc[c] = "lock"
    /\ owner = 0
    /\ request_id <= MaxId
    /\ o = InitializeMethod => spawned < MaxProc
    /\ owner' = c
    /\ op' = [op EXCEPT ![c] = o]
    /\ pc' = [pc EXCEPT ![c] = IF o \in PerOpMethods THEN "sr" ELSE "start"]
    /\ UNCHANGED <<client, env, chans, hist, rid, res>>
    /\ UNCHANGED frame
    /\ UNCHANGED ghost
    /\ UNCHANGED facade
    /\ UNCHANGED <<coord, dispatch, hovers, opens, pipes>>

\* A method returns r to its caller, which still holds the guard.
Ret(c, r) ==
    /\ pc' = [pc EXCEPT ![c] = "done"]
    /\ res' = [res EXCEPT ![c] = r]
    /\ prev_shutdown' = (op[c] = ShutdownMethod)
    /\ UNCHANGED <<owner, op, rid>>

\* The caller is done with the client: the guard is dropped.
Release(c) ==
    /\ pc[c] = "done"
    /\ pc' = [pc EXCEPT ![c] = "lock"]
    /\ op' = [op EXCEPT ![c] = "none"]
    /\ rid' = [rid EXCEPT ![c] = 0]
    /\ res' = [res EXCEPT ![c] = "none"]
    /\ owner' = 0
    /\ UNCHANGED <<client, env, chans, hist>>
    /\ UNCHANGED frame
    /\ sd' = NoShutdown
    /\ UNCHANGED timed_out
    /\ UNCHANGED facade
    /\ UNCHANGED <<coord, dispatch, hovers, opens, pipes>>

\* A caller moves to position l inside its method.
Goto(c, l) ==
    /\ pc' = [pc EXCEPT ![c] = l]
    /\ UNCHANGED <<owner, op, rid>>

\* The pipe to a process is gone once the process has exited: nothing
\* reads what was written to it.
PipesAfter(w, ps) == [q \in Pids |-> IF ps[q] = "running" THEN w[q] ELSE <<>>]

\* ---------------------------------------------------------- start_server
\* cmd.spawn() succeeds: the reader task is spawned on the new stdout, and
\* the handle, stdin and process fields are overwritten.  The Child that was
\* held is dropped (kill_on_drop(true)); the JoinHandle that was held is
\* dropped too, which detaches the old reader task without stopping it.
StartServer(c) ==
    /\ pc[c] = "start" /\ op[c] = InitializeMethod
    /\ spawned < MaxProc
    /\ LET p == spawned + 1 IN
        /\ spawned' = p
        /\ procs' = [q \in Pids |->
                        IF q = p THEN "running"
                        ELSE IF q = process THEN "exited"
                        ELSE procs[q]]
        /\ readers' = [readers EXCEPT ![p] = "running"]
        /\ reader_handle' = p
        /\ stdin' = p
        /\ process' = p
    /\ wire' = PipesAfter(wire, procs')
    /\ msgs' = PipesAfter(msgs, procs')
    /\ Goto(c, "sr")
    /\ UNCHANGED <<initialized, request_id, response_map, stdin_lock,
                   chans, hist, res>>
    /\ UNCHANGED frame
    /\ timed_out' = FALSE
    /\ UNCHANGED sd
    /\ UNCHANGED facade
    /\ UNCHANGED <<coord, dispatch, hovers, opens, pipes>>

\* The request id after a failed cmd.spawn(): start_server returns before
\* initialize() reaches send_request and its fetch_add.
IdAfterSpawnFailureConsumed(id) == id + 1
IdAfterSpawnFailure(id) == id

\* cmd.spawn() fails: `?` returns the error from initialize().
StartServerFails(c) ==
    /\ pc[c] = "start" /\ op[c] = InitializeMethod
    /\ Ret(c, "spawn_failed")
    /\ request_id' = IdAfterSpawnFailure(request_id)
    /\ UNCHANGED <<initialized, process, stdin, response_map, reader_handle,
                   stdin_lock, env, chans, issued, ever_initialized, miss>>
    /\ UNCHANGED frame
    /\ UNCHANGED ghost
    /\ UNCHANGED facade
    /\ UNCHANGED <<coord, dispatch, hovers, opens, pipes>>

\* ---------------------------------------------------------- send_request
\* if !self.initialized && method != "initialize" { bail!(...) }
SendRequestAcceptsAll(init, method) == TRUE
SendRequestAccepts(init, method) == init \/ method = InitializeMethod

\* self.request_id.fetch_add(1, SeqCst): the value stored after the call.
FetchAddStuck(id) == id
FetchAdd(id) == id + 1

SendRequestRejected(c) ==
    /\ pc[c] = "sr"
    /\ ~SendRequestAccepts(initialized, op[c])
    /\ Ret(c, "not_initialized")
    /\ UNCHANGED <<client, env, chans, issued, ever_initialized, miss>>
    /\ UNCHANGED frame
    /\ UNCHANGED ghost
    /\ UNCHANGED facade
    /\ UNCHANGED <<coord, dispatch, hovers, opens, pipes>>

\* The id is taken, the oneshot channel is created and its Sender is put
\* into the map under the id.
\* let mut map = self.response_map.lock().await; map.insert(id, tx);
InsertPendingSkipped(map, id) == map
InsertPending(map, id) == map \cup {id}

SendRequestRegister(c) ==
    /\ pc[c] = "sr"
    /\ SendRequestAccepts(initialized, op[c])
    /\ request_id \in Ids
    /\ LET id == request_id IN
        /\ request_id' = FetchAdd(request_id)
        /\ response_map' = InsertPending(response_map, id)
        /\ chan' = [chan EXCEPT ![id] = "open"]
        /\ rid' = [rid EXCEPT ![c] = id]
        /\ issued' = Append(issued, id)
    /\ pc' = [pc EXCEPT ![c] = "wh"]
    /\ UNCHANGED <<initialized, process, stdin, reader_handle, stdin_lock,
                   env, prev_shutdown, ever_initialized, miss, owner, op, res>>
    /\ UNCHANGED frame
    /\ UNCHANGED ghost
    /\ UNCHANGED facade
    /\ UNCHANGED <<coord, dispatch, hovers, opens, pipes>>

\* --------------------------------------------------------- write_message
\* The message a caller is writing: the request of its send_request, or the
\* notification that follows it ("initialized" in initialize, "exit" in
\* shutdown).
CurMsg(c) ==
    IF pc[c] \in {"wh", "wb"} THEN Request(op[c], rid[c])
    ELSE Notification(IF op[c] = InitializeMethod THEN "initialized" ELSE "exit")

\* A write to the pipe succeeds while the process at its other end runs.
CanWrite == stdin # 0 /\ procs[stdin] = "running"

\* Where a caller goes when write_message has returned: a request then
\* awaits its response; a failed request write returns from send_request
\* (`?`); a notification returns to initialize / shutdown.
AfterWrite(c, ok) ==
    IF pc[c] \in {"wh", "wb"}
    THEN /\ pc' = [pc EXCEPT ![c] = IF ok THEN "await" ELSE "sr_ret"]
         /\ res' = [res EXCEPT ![c] = IF ok THEN "none" ELSE "write_failed"]
         /\ chan' = IF ok THEN chan ELSE [chan EXCEPT ![rid[c]] = "gone"]
    ELSE /\ pc' = [pc EXCEPT ![c] = "n_ret"]
         /\ res' = [res EXCEPT ![c] = IF ok THEN "ok" ELSE "write_failed"]
         /\ chan' = chan

\* stdin.lock().await; write_all(header)
WriteHeader(c) ==
    /\ pc[c] \in {"wh", "nh"}
    /\ CanWrite
    /\ stdin_lock = 0
    /\ stdin_lock' = c
    /\ wire' = [wire EXCEPT ![stdin] = Append(@, Header(Content(CurMsg(c))))]
    /\ msgs' = [msgs EXCEPT ![stdin] = Append(@, CurMsg(c))]
    /\ Goto(c, IF pc[c] = "wh" THEN "wb" ELSE "nb")
    /\ UNCHANGED <<initialized, process, stdin, request_id, response_map,
                   reader_handle, spawned, procs, readers, chans, hist, res>>
    /\ UNCHANGED frame
    /\ UNCHANGED ghost
    /\ UNCHANGED facade
    /\ UNCHANGED <<coord, dispatch, hovers, opens, pipes>>

\* No stdin, or write_all(header) fails: write_message returns the error.
WriteHeaderFails(c) ==
    /\ pc[c] \in {"wh", "nh"}
    /\ ~CanWrite
    /\ AfterWrite(c, FALSE)
    /\ UNCHANGED <<client, env, hist, owner, op, rid>>
    /\ UNCHANGED frame
    /\ UNCHANGED ghost
    /\ UNCHANGED facade
    /\ UNCHANGED <<coord, dispatch, hovers, opens, pipes>>

\* write_all(content); flush(); the guard on stdin is dropped.
WriteBody(c) ==
    /\ pc[c] \in {"wb", "nb"}
    /\ CanWrite
    /\ stdin_lock' = 0
    /\ wire' = [wire EXCEPT ![stdin] = @ \o Content(CurMsg(c))]
    /\ AfterWrite(c, TRUE)
    /\ UNCHANGED <<initialized, process, stdin, request_id, response_map,
                   reader_handle, spawned, procs, readers, msgs, hist,
                   owner, op, rid>>
    /\ UNCHANGED frame
    /\ UNCHANGED ghost
    /\ UNCHANGED facade
    /\ UNCHANGED <<coord, dispatch, hovers, opens, pipes>>

\* write_all(content) or flush() fails: the guard is dropped by `?`.
WriteBodyFails(c) ==
    /\ pc[c] \in {"wb", "nb"}
    /\ ~CanWrite
    /\ stdin_lock' = 0
    /\ AfterWrite(c, FALSE)
    /\ UNCHANGED <<initialized, process, stdin, request_id, response_map,
                   reader_handle, env, hist, owner, op, rid>>
    /\ UNCHANGED frame
    /\ UNCHANGED ghost
    /\ UNCHANGED facade
    /\ UNCHANGED <<coord, dispatch, hovers, opens, pipes>>

\* ------------------------------------------ awaiting the response (rx)
\* What the receiver yields for the state of its channel.
Outcome(ch) ==
    CASE ch = "ok" -> "ok"
      [] ch = "err" -> "lsp_error"
      [] ch = "closed" -> "closed"
      [] OTHER -> "none"

\* timeout(30s, rx) completes with the receiver: Ok(Ok(response)) gives the
\* delivered result or error, Ok(Err(_)) is "Response channel closed".
Receive(c) ==
    /\ pc[c] = "await"
    /\ chan[rid[c]] \in {"ok", "err", "closed"}
    /\ res' = [res EXCEPT ![c] = Outcome(chan[rid[c]])]
    /\ chan' = [chan EXCEPT ![rid[c]] = "gone"]
    /\ Goto(c, "sr_ret")
    /\ UNCHANGED <<client, env, hist>>
    /\ UNCHANGED frame
    /\ UNCHANGED ghost
    /\ UNCHANGED facade
    /\ UNCHANGED <<coord, dispatch, hovers, opens, pipes>>

\* timeout(Duration::from_secs(30), rx): the timer wins when the channel
\* still holds nothing and its Sender is alive.
Elapsed(ch) == ch = "open"

\* The 30 s elapse with nothing on the channel: the Err(_) arm is entered.
TimeoutFires(c) ==
    /\ pc[c] = "await"
    /\ Elapsed(chan[rid[c]])
    /\ chan' = [chan EXCEPT ![rid[c]] = "gone"]
    /\ Goto(c, "timedout")
    /\ UNCHANGED <<client, env, hist, res>>
    /\ UNCHANGED frame
    /\ UNCHANGED ghost
    /\ UNCHANGED facade
    /\ UNCHANGED <<coord, dispatch, hovers, opens, pipes>>

\* map.remove(&id) in the timeout arm.
RemoveOnTimeoutNone(map, id) == map
RemoveOnTimeout(map, id) == map \ {id}

\* The timeout arm does not assign self.initialized.
InitializedLostOnTimeout(init) == FALSE
InitializedAfterTimeout(init) == init

\* let mut map = self.response_map.lock().await; map.remove(&id);
\* bail!("Request timeout")
TimeoutRemove(c) ==
    /\ pc[c] = "timedout"
    /\ response_map' = RemoveOnTimeout(response_map, rid[c])
    /\ initialized' = InitializedAfterTimeout(initialized)
    /\ res' = [res EXCEPT ![c] = "timeout"]
    /\ Goto(c, "sr_ret")
    /\ UNCHANGED <<process, stdin, request_id, reader_handle,
                   stdin_lock, env, chans, hist>>
    /\ UNCHANGED frame
    /\ timed_out' = TRUE
    /\ UNCHANGED sd
    /\ UNCHANGED facade
    /\ UNCHANGED <<coord, dispatch, hovers, opens, pipes>>

\* ------------------------------------------- after send_request returns
\* A per-operation wrapper returns what send_request returned.
PerOpReturns(c) ==
    /\ pc[c] = "sr_ret" /\ op[c] \in PerOpMethods
    /\ Ret(c, res[c])
    /\ UNCHANGED <<client, env, chans, issued, ever_initialized, miss>>
    /\ UNCHANGED frame
    /\ UNCHANGED ghost
    /\ UNCHANGED facade
    /\ UNCHANGED <<coord, dispatch, hovers, opens, pipes>>

\* initialize(): `?` on the handshake's error returns it.
InitializeFails(c) ==
    /\ pc[c] = "sr_ret" /\ op[c] = InitializeMethod
    /\ res[c] # "ok"
    /\ Ret(c, res[c])
    /\ UNCHANGED <<client, env, chans, issued, ever_initialized, miss>>
    /\ UNCHANGED frame
    /\ UNCHANGED ghost
    /\ UNCHANGED facade
    /\ UNCHANGED <<coord, dispatch, hovers, opens, pipes>>

\* initialize(): self.initialized = true, then the "initialized"
\* notification is sent.
InitializeMarks(c) ==
    /\ pc[c] = "sr_ret" /\ op[c] = InitializeMethod
    /\ res[c] = "ok"
    /\ initialized' = TRUE
    /\ ever_initialized' = TRUE
    /\ Goto(c, "nh")
    /\ UNCHANGED <<process, stdin, request_id, response_map, reader_handle,
                   stdin_lock, env, chans, issued, prev_shutdown, miss, res>>
    /\ UNCHANGED frame
    /\ UNCHANGED ghost
    /\ UNCHANGED facade
    /\ UNCHANGED <<coord, dispatch, hovers, opens, pipes>>

\* initialize(): send_notification(..).await? ; Ok(response)
InitializeReturns(c) ==
    /\ pc[c] = "n_ret" /\ op[c] = InitializeMethod
    /\ Ret(c, res[c])
    /\ UNCHANGED <<client, env, chans, issued, ever_initialized, miss>>
    /\ UNCHANGED frame
    /\ UNCHANGED ghost
    /\ UNCHANGED facade
    /\ UNCHANGED <<coord, dispatch, hovers, opens, pipes>>

\* --------------------------------------------------------------- shutdown
\* if !self.initialized { return Ok(()) }
ShutdownNoop(c) ==
    /\ pc[c] = "start" /\ op[c] = ShutdownMethod
    /\ ~initialized
    /\ Ret(c, "ok")
    /\ UNCHANGED <<client, env, chans, issued, ever_initialized, miss>>
    /\ UNCHANGED frame
    /\ UNCHANGED ghost
    /\ UNCHANGED facade
    /\ UNCHANGED <<coord, dispatch, hovers, opens, pipes>>

\* let _ = self.send_request("shutdown", Null).await;
ShutdownBegins(c) ==
    /\ pc[c] = "start" /\ op[c] = ShutdownMethod
    /\ initialized
    /\ Goto(c, "sr")
    /\ UNCHANGED <<client, env, chans, hist, res>>
    /\ UNCHANGED frame
    /\ UNCHANGED ghost
    /\ UNCHANGED facade
    /\ UNCHANGED <<coord, dispatch, hovers, opens, pipes>>

\* The outcome of the shutdown request is dropped; the exit notification
\* is sent next.
ShutdownSendsExit(c) ==
    /\ pc[c] = "sr_ret" /\ op[c] = ShutdownMethod
    /\ Goto(c, "nh")
    /\ UNCHANGED <<client, env, chans, hist, res>>
    /\ UNCHANGED frame
    /\ sd' = [sd EXCEPT !.req = res[c]]
    /\ UNCHANGED timed_out
    /\ UNCHANGED facade
    /\ UNCHANGED <<coord, dispatch, hovers, opens, pipes>>

\* The outcome of the exit notification is dropped; then
\* if let Some(handle) = self._reader_handle.take() { handle.abort(); }
\* AbortPoint is where shutdown() stands when it does so: send_notification
\* has returned.
AbortPointEarly == "sr_ret"
AbortPoint == "n_ret"

ShutdownAbortsReader(c) ==
    /\ pc[c] = AbortPoint /\ op[c] = ShutdownMethod
    /\ reader_handle' = 0
    /\ readers' = [q \in Pids |->
                     IF q = reader_handle /\ readers[q] = "running"
                     THEN "aborted" ELSE readers[q]]
    /\ Goto(c, "sd_wait")
    /\ UNCHANGED <<initialized, process, stdin, request_id, response_map,
                   stdin_lock, spawned, procs, wire, msgs, chans, hist, res>>
    /\ UNCHANGED frame
    /\ sd' = [sd EXCEPT !.exit = res[c]]
    /\ UNCHANGED timed_out
    /\ UNCHANGED facade
    /\ UNCHANGED <<coord, dispatch, hovers, opens, pipes>>

\* timeout(5s, process.wait()) and then process.kill(): the state of the
\* process afterwards, whatever it was.
ProcAfterWaitOnly(st) == st
ProcAfterWaitAndKill(st) == "exited"

\* if let Some(mut process) = self.process.take() { timeout(5s, wait);
\* kill }: whether or not the process exited within the 5 s, it is not
\* running afterwards.  A process still running when the wait starts
\* either exits within the 5 s (how = "exited") or is killed after them
\* (how = "killed").
ShutdownWaitsAndKills(c, how) ==
    /\ pc[c] = "sd_wait"
    /\ (process = 0 \/ procs[process] # "running") => how = "exited"
    /\ sd' = [sd EXCEPT !.wait = IF process = 0 THEN "no_process" ELSE how]
    /\ UNCHANGED timed_out
    /\ process' = 0
    /\ procs' = [q \in Pids |-> IF q = process
                                 THEN ProcAfterWaitAndKill(procs[q])
                                 ELSE procs[q]]
    /\ wire' = PipesAfter(wire, procs')
    /\ msgs' = PipesAfter(msgs, procs')
    /\ Goto(c, "sd_mark")
    /\ UNCHANGED <<initialized, stdin, request_id, response_map,
                   reader_handle, stdin_lock, spawned, readers, chans,
                   hist, res>>
    /\ UNCHANGED frame
    /\ UNCHANGED facade
    /\ UNCHANGED <<coord, dispatch, hovers, opens, pipes>>

\* self.initialized = false; Ok(())
ShutdownReturns(c) ==
    /\ pc[c] = "sd_mark"
    /\ initialized' = FALSE
    /\ Ret(c, "ok")
    /\ UNCHANGED <<process, stdin, request_id, response_map, reader_handle,
                   stdin_lock, env, chans, issued, ever_initialized, miss>>
    /\ UNCHANGED frame
    /\ UNCHANGED ghost
    /\ UNCHANGED facade
    /\ UNCHANGED <<coord, dispatch, hovers, opens, pipes>>

\* ------------------------------------------------------------ reader_task
\* The frames a backend can put on its stdout: a response with a result,
\* a response with an error, a request of the server (an id, but neither
\* result nor error), and a notification (no id).
Incoming ==
    [kind : {"result", "error", "request"}, id : Ids]
        \cup {[kind |-> "notification", id |-> 0]}

\* sender.send(..) for an error or a result, and the drop of the Sender for
\* a frame with neither: what the channel holds afterwards.  A send to a
\* channel whose receiver is gone fails, and the failure is ignored.
Sent(ch, kind) ==
    IF ch = "gone" THEN "gone"
    ELSE CASE kind = "error" -> "err"
           [] kind = "result" -> "ok"
           [] OTHER -> IF ch = "open" THEN "closed" ELSE ch

\* map.remove(&id): the map afterwards.
MapRemoveKeeps(map, id) == map
MapRemove(map, id) == map \ {id}

\* if let Some(sender) = map.remove(&id) { .. } has no else branch: the
\* task goes on to the next frame whether or not a Sender was found.
ReaderStopsOnMiss(found) == IF found THEN "running" ELSE "stopped"
ReaderAfter(found) == "running"

\* A response to a request whose response was already delivered.
IsDup(m) ==
    /\ m.kind \in {"result", "error"}
    /\ \/ chan[m.id] \in {"ok", "err"}
       \/ \E c \in Callers :
             /\ rid[c] = m.id /\ op[c] \in PerOpMethods
             /\ pc[c] \in {"sr_ret", "done"} /\ res[c] \in {"ok", "lsp_error"}

\* A response to a request whose entry was removed on timeout.
IsLate(m) ==
    /\ m.kind \in {"result", "error"}
    /\ \E c \in Callers :
          /\ rid[c] = m.id /\ op[c] \in PerOpMethods
          /\ pc[c] \in {"sr_ret", "done"} /\ res[c] = "timeout"

\* A response with an id that no request was given.
IsUnknown(m) == m.kind \in {"result", "error"} /\ m.id >= request_id

\* Which kind of miss a frame without a Sender is (history only).
MissKind(m) ==
    CASE IsDup(m) -> "dup"
      [] IsLate(m) -> "late"
      [] IsUnknown(m) -> "unknown"
      [] OTHER -> miss

\* json.get("id").and_then(|v| v.as_u64()): the key the frame is looked up
\* under is the frame's own id (0 stands for a frame without one).
LookupKeyAnyPending(map, m) ==
    IF map # {} THEN CHOOSE k \in map : TRUE ELSE m.id
LookupKey(map, m) == m.id

\* One frame is decoded and handled: with an id whose Sender is in the
\* map, the Sender is removed and the error or result is sent on it (with
\* neither, the Sender is just dropped, which closes the channel).
ReaderHandles(p, m) ==
    /\ readers[p] = "running"
    /\ LET id == LookupKey(response_map, m)
           found == id # 0 /\ id \in response_map IN
        /\ response_map' =
              IF found THEN MapRemove(response_map, id) ELSE response_map
        /\ chan' = IF found THEN [chan EXCEPT ![id] = Sent(@, m.kind)] ELSE chan
        /\ readers' = [readers EXCEPT ![p] = ReaderAfter(found)]
        /\ miss' = IF found THEN miss ELSE MissKind(m)
    /\ UNCHANGED <<initialized, process, stdin, request_id, reader_handle,
                   stdin_lock, spawned, procs, wire, msgs, tasks, issued,
                   prev_shutdown, ever_initialized>>
    /\ UNCHANGED frame
    /\ UNCHANGED ghost
    /\ UNCHANGED facade
    /\ UNCHANGED <<coord, dispatch, hovers, opens, pipes>>

\* read_line returns Ok(0) (or a read fails) once the process is gone and
\* its output is drained: the task returns.
ReaderEnds(p) ==
    /\ readers[p] = "running"
    /\ procs[p] = "exited"
    /\ readers' = [readers EXCEPT ![p] = "stopped"]
    /\ UNCHANGED <<client, spawned, procs, wire, msgs, chans, tasks, hist>>
    /\ UNCHANGED frame
    /\ UNCHANGED ghost
    /\ UNCHANGED facade
    /\ UNCHANGED <<coord, dispatch, hovers, opens, pipes>>

\* read_line or read_exact fails, or reads the end of a stdout that the
\* backend has closed, while the process is still running: the task logs
\* and returns.
ReaderFails(p) ==
    /\ readers[p] = "running"
    /\ procs[p] = "running"
    /\ readers' = [readers EXCEPT ![p] = "stopped"]
    /\ UNCHANGED <<client, spawned, procs, wire, msgs, chans, tasks, hist>>
    /\ UNCHANGED frame
    /\ UNCHANGED ghost
    /\ UNCHANGED facade
    /\ UNCHANGED <<coord, dispatch, hovers, opens, pipes>>

\* ---------------------------------------------------------------- backend
\* The backend process exits on its own (a crash, or after "exit").
BackendExits(p) ==
    /\ procs[p] = "running"
    /\ procs' = [procs EXCEPT ![p] = "exited"]
    /\ wire' = PipesAfter(wire, procs')
    /\ msgs' = PipesAfter(msgs, procs')
    /\ UNCHANGED <<client, spawned, readers, chans, tasks, hist>>
    /\ UNCHANGED frame
    /\ UNCHANGED ghost
    /\ UNCHANGED facade
    /\ UNCHANGED <<coord, dispatch, hovers, opens, pipes>>

\* ------------------------------------------------------------------- Next
Next ==
    \/ \E c \in Callers, o \in Ops : Acquire(c, o)
    \/ \E c \in Callers : Release(c)
    \/ \E c \in Callers : StartServer(c)
    \/ \E c \in Callers : StartServerFails(c)
    \/ \E c \in Callers : SendRequestRejected(c)
    \/ \E c \in Callers : SendRequestRegister(c)
    \/ \E c \in Callers : WriteHeader(c)
    \/ \E c \in Callers : WriteHeaderFails(c)
    \/ \E c \in Callers : WriteBody(c)
    \/ \E c \in Callers : WriteBodyFails(c)
    \/ \E c \in Callers : Receive(c)
    \/ \E c \in Callers : TimeoutFires(c)
    \/ \E c \in Callers : TimeoutRemove(c)
    \/ \E c \in Callers : PerOpReturns(c)
    \/ \E c \in Callers : InitializeFails(c)
    \/ \E c \in Callers : InitializeMarks(c)
    \/ \E c \in Callers : InitializeReturns(c)
    \/ \E c \in Callers : ShutdownNoop(c)
    \/ \E c \in Callers : ShutdownBegins(c)
    \/ \E c \in Callers : ShutdownSendsExit(c)
    \/ \E c \in Callers : ShutdownAbortsReader(c)
    \/ \E c \in Callers, how \in {"exited", "killed"} :
          ShutdownWaitsAndKills(c, how)
    \/ \E c \in Callers : ShutdownReturns(c)
    \/ \E p \in Pids, m \in Incoming : ReaderHandles(p, m)
    \/ \E p \in Pids : ReaderEnds(p)
    \/ \E p \in Pids : ReaderFails(p)
    \/ \E p \in Pids : BackendExits(p)

Spec == Init /\ [][Next]_vars

\* ------------------------------------------------- scheduling and the pipe
\* write_all on the ChildStdin completes when the pipe takes the bytes: it
\* stays pending, under no timeout, while the pipe is full and the backend
\* does not read.  A backend may stop reading its stdin and may resume; the
\* capacity of the pipe is not counted: a pipe that holds unread bytes may
\* be full.
PipeHasRoom == stdin # stalled

BackendStalls(p) ==
    /\ procs[p] = "running"
    /\ wire[p] # <<>>
    /\ stalled = 0
    /\ stalled' = p
    /\ UNCHANGED <<client, env, chans, tasks, hist>>
    /\ UNCHANGED frame
    /\ UNCHANGED ghost
    /\ UNCHANGED facade
    /\ UNCHANGED <<coord, dispatch, hovers, opens>>

BackendResumes ==
    /\ stalled # 0
    /\ stalled' = 0
    /\ UNCHANGED <<client, env, chans, tasks, hist>>
    /\ UNCHANGED frame
    /\ UNCHANGED ghost
    /\ UNCHANGED facade
    /\ UNCHANGED <<coord, dispatch, hovers, opens>>

\* The steps of write_message and of the await in send_request: a write to
\* a pipe with room succeeds, a write to a closed pipe fails at once, and
\* the 30 s timer of tokio::time::timeout fires.
SendRequestStep(c) ==
    \/ PipeHasRoom /\ WriteHeader(c)
    \/ WriteHeaderFails(c)
    \/ PipeHasRoom /\ WriteBody(c)
    \/ WriteBodyFails(c)
    \/ Receive(c) \/ TimeoutFires(c) \/ TimeoutRemove(c)

\* Every step of a caller that holds the client, up to the drop of its
\* guard.  The tokio runtime polls a future that can make progress and
\* wakes a writer whenever its pipe becomes writable, so a step of a caller
\* that is enabled again and again is eventually taken; cmd.spawn() returns,
\* and the wait for the process is under a 5 s timeout.
CallerStep(c) ==
    \/ StartServer(c) \/ StartServerFails(c)
    \/ SendRequestRejected(c) \/ SendRequestRegister(c)
    \/ SendRequestStep(c)
    \/ PerOpReturns(c)
    \/ InitializeFails(c) \/ InitializeMarks(c) \/ InitializeReturns(c)
    \/ ShutdownNoop(c) \/ ShutdownBegins(c) \/ ShutdownSendsExit(c)
    \/ ShutdownAbortsReader(c)
    \/ \E how \in {"exited", "killed"} : ShutdownWaitsAndKills(c, how)
    \/ ShutdownReturns(c)
    \/ Release(c)

LiveNext ==
    \/ \E c \in Callers, o \in Ops : Acquire(c, o)
    \/ \E c \in Callers : CallerStep(c)
    \/ \E p \in Pids, m \in Incoming : ReaderHandles(p, m)
    \/ \E p \in Pids : ReaderEnds(p)
    \/ \E p \in Pids : ReaderFails(p)
    \/ \E p \in Pids : BackendExits(p)
    \/ \E p \in Pids : BackendStalls(p)
    \/ BackendResumes

SpecLive ==
    Init /\ [][LiveNext]_vars /\ \A c \in Callers : SF_vars(CallerStep(c))

\* =============================================== the framing, byte by byte
\* A byte is a one-character string, or a name for a byte that has no
\* printable character: "CR", "LF", and "xC3" "xA9", the UTF-8 encoding of
\* the character "e_acute" (U+00E9).  A string is a sequence of characters.

\* serde_json::Value, as one record shape: t is the variant, n the number or
\* the boolean (1 = true), s the string or the key, a the elements or the
\* member's value.
JNull == [t |-> "null", n |-> 0, s |-> <<>>, a |-> <<>>]
JBool(b) == [t |-> "bool", n |-> IF b THEN 1 ELSE 0, s |-> <<>>, a |-> <<>>]
JNum(k) == [t |-> "num", n |-> k, s |-> <<>>, a |-> <<>>]
JStr(str) == [t |-> "str", n |-> 0, s |-> str, a |-> <<>>]
JArr(elems) == [t |-> "arr", n |-> 0, s |-> <<>>, a |-> elems]
JObjEmpty == [t |-> "obj", n |-> 0, s |-> <<>>, a |-> <<>>]
JObj(key, val) == [t |-> "obj", n |-> 1, s |-> key, a |-> <<val>>]

Digits == <<"0", "1", "2", "3", "4", "5", "6", "7", "8", "9">>
IsDigit(b) == \E i \in 1..10 : Digits[i] = b
DigitVal(b) == (CHOOSE i \in 1..10 : Digits[i] = b) - 1

\* format!("{}", n) for an unsigned n.
RECURSIVE DecimalOf(_)
DecimalOf(n) ==
    IF n < 10 THEN <<Digits[n + 1]>>
    ELSE DecimalOf(n \div 10) \o <<Digits[(n % 10) + 1]>>

\* as_bytes of one character.
Utf8(ch) == IF ch = "e_acute" THEN <<"xC3", "xA9">> ELSE <<ch>>

\* serde_json's string escaping of one character.
Escape(ch) ==
    CASE ch = "\"" -> <<"\\", "\"">>
      [] ch = "\\" -> <<"\\", "\\">>
      [] ch = "LF" -> <<"\\", "n">>
      [] ch = "CR" -> <<"\\", "r">>
      [] OTHER -> Utf8(ch)

RECURSIVE EscapeAll(_)
EscapeAll(str) ==
    IF str = <<>> THEN <<>> ELSE Escape(Head(str)) \o EscapeAll(Tail(str))

Quote(str) == <<"\"">> \o EscapeAll(str) \o <<"\"">>

\* serde_json::to_string, as bytes.
RECURSIVE ToJsonString(_)
RECURSIVE ElemsToJsonString(_)
ToJsonString(v) ==
    CASE v.t = "null" -> <<"n", "u", "l", "l">>
      [] v.t = "bool" -> IF v.n = 1 THEN <<"t", "r", "u", "e">>
                                    ELSE <<"f", "a", "l", "s", "e">>
      [] v.t = "num" -> DecimalOf(v.n)
      [] v.t = "str" -> Quote(v.s)
      [] v.t = "arr" -> <<"[">> \o ElemsToJsonString(v.a) \o <<"]">>
      [] v.t = "obj" ->
            IF v.n = 0 THEN <<"{", "}">>
            ELSE <<"{">> \o Quote(v.s) \o <<":">> \o ToJsonString(v.a[1])
                     \o <<"}">>
ElemsToJsonString(elems) ==
    IF elems = <<>> THEN <<>>
    ELSE IF Len(elems) = 1 THEN ToJsonString(elems[1])
    ELSE ToJsonString(elems[1]) \o <<",">> \o ElemsToJsonString(Tail(elems))

\* content.len(): the number of bytes of the body.
ContentLenChars(content) ==
    Cardinality({i \in 1..Len(content) : content[i] # "xA9"})
ContentLen(content) == Len(content)

\* format!("Content-Length: {}\r\n\r\n", content.len()), as bytes.
ContentLengthKey ==
    <<"C", "o", "n", "t", "e", "n", "t", "-", "L", "e", "n", "g", "t", "h">>
HeaderBytes(content) ==
    ContentLengthKey \o <<":", " ">> \o DecimalOf(ContentLen(content))
        \o <<"CR", "LF", "CR", "LF">>

Drop(bs, k) == SubSeq(bs, k + 1, Len(bs))
StartsWith(bs, pre) == Len(bs) >= Len(pre) /\ SubSeq(bs, 1, Len(pre)) = pre

\* read_line: the bytes up to and including the first LF.
FirstLF(bs) == CHOOSE i \in 1..Len(bs) :
                  bs[i] = "LF" /\ \A j \in 1..(i - 1) : bs[j] # "LF"
HasLine(bs) == \E i \in 1..Len(bs) : bs[i] = "LF"

\* read_line fails on bytes that are not UTF-8.
ValidUtf8(bs) ==
    \A i \in 1..Len(bs) :
        /\ bs[i] = "xC3" => (i < Len(bs) /\ bs[i + 1] = "xA9")
        /\ bs[i] = "xA9" => (i > 1 /\ bs[i - 1] = "xC3")

\* str::trim: white space off both ends.
IsSpace(b) == b \in {" ", "CR", "LF"}
RECURSIVE TrimStart(_)
TrimStart(bs) ==
    IF bs # <<>> /\ IsSpace(Head(bs)) THEN TrimStart(Tail(bs)) ELSE bs
RECURSIVE TrimEnd(_)
TrimEnd(bs) ==
    IF bs # <<>> /\ IsSpace(bs[Len(bs)])
    THEN TrimEnd(SubSeq(bs, 1, Len(bs) - 1)) ELSE bs
Trim(bs) == TrimEnd(TrimStart(bs))

\* str::split_once(": "): around the first ": ".
HasSeparator(bs) ==
    \E i \in 1..(Len(bs) - 1) : bs[i] = ":" /\ bs[i + 1] = " "
SplitOnce(bs) ==
    LET i == CHOOSE k \in 1..(Len(bs) - 1) :
                /\ bs[k] = ":" /\ bs[k + 1] = " "
                /\ \A j \in 1..(k - 1) : ~(bs[j] = ":" /\ bs[j + 1] = " ")
    IN  [key |-> SubSeq(bs, 1, i - 1), value |-> Drop(bs, i + 1)]

\* str::parse::<usize>: decimal digits only, at least one.
RECURSIVE DigitsValue(_, _)
DigitsValue(bs, acc) ==
    IF bs = <<>> THEN acc
    ELSE DigitsValue(Tail(bs), 10 * acc + DigitVal(Head(bs)))
ParseUsize(bs) ==
    IF bs # <<>> /\ \A i \in 1..Len(bs) : IsDigit(bs[i])
    THEN [ok |-> TRUE, n |-> DigitsValue(bs, 0)]
    ELSE [ok |-> FALSE, n |-> 0]

\* serde_json::from_slice::<Value>, a recursive-descent parser.
ParseError == [ok |-> FALSE, v |-> JNull, rest |-> <<>>]
Parsed(val, rest) == [ok |-> TRUE, v |-> val, rest |-> rest]

\* the characters of a string, after its opening quote
RECURSIVE ParseChars(_, _)
ParseChars(bs, acc) ==
    IF bs = <<>> THEN [ok |-> FALSE, s |-> <<>>, rest |-> <<>>]
    ELSE IF Head(bs) = "\"" THEN [ok |-> TRUE, s |-> acc, rest |-> Tail(bs)]
    ELSE IF Head(bs) = "\\" THEN
        IF Len(bs) < 2 THEN [ok |-> FALSE, s |-> <<>>, rest |-> <<>>]
        ELSE CASE bs[2] = "\"" -> ParseChars(Drop(bs, 2), Append(acc, "\""))
               [] bs[2] = "\\" -> ParseChars(Drop(bs, 2), Append(acc, "\\"))
               [] bs[2] = "n" -> ParseChars(Drop(bs, 2), Append(acc, "LF"))
               [] bs[2] = "r" -> ParseChars(Drop(bs, 2), Append(acc, "CR"))
               [] OTHER -> [ok |-> FALSE, s |-> <<>>, rest |-> <<>>]
    ELSE IF Head(bs) = "xC3" THEN
        IF Len(bs) >= 2 /\ bs[2] = "xA9"
        THEN ParseChars(Drop(bs, 2), Append(acc, "e_acute"))
        ELSE [ok |-> FALSE, s |-> <<>>, rest |-> <<>>]
    ELSE IF Head(bs) \in {"xA9", "CR", "LF"}
        THEN [ok |-> FALSE, s |-> <<>>, rest |-> <<>>]
    ELSE ParseChars(Tail(bs), Append(acc, Head(bs)))

RECURSIVE ParseDigits(_, _)
ParseDigits(bs, acc) ==
    IF bs # <<>> /\ IsDigit(Head(bs))
    THEN ParseDigits(Tail(bs), 10 * acc + DigitVal(Head(bs)))
    ELSE [n |-> acc, rest |-> bs]

RECURSIVE ParseValue(_)
RECURSIVE ParseElems(_, _)
ParseValue(raw) ==
    LET bs == TrimStart(raw) IN
    IF bs = <<>> THEN ParseError
    ELSE IF StartsWith(bs, <<"n", "u", "l", "l">>)
        THEN Parsed(JNull, Drop(bs, 4))
    ELSE IF StartsWith(bs, <<"t", "r", "u", "e">>)
        THEN Parsed(JBool(TRUE), Drop(bs, 4))
    ELSE IF StartsWith(bs, <<"f", "a", "l", "s", "e">>)
        THEN Parsed(JBool(FALSE), Drop(bs, 5))
    ELSE IF IsDigit(Head(bs)) THEN
        IF Head(bs) = "0" /\ Len(bs) >= 2 /\ IsDigit(bs[2]) THEN ParseError
        ELSE LET d == ParseDigits(bs, 0) IN Parsed(JNum(d.n), d.rest)
    ELSE IF Head(bs) = "\"" THEN
        LET r == ParseChars(Tail(bs), <<>>)
        IN  IF r.ok THEN Parsed(JStr(r.s), r.rest) ELSE ParseError
    ELSE IF Head(bs) = "[" THEN
        LET in == TrimStart(Tail(bs))
        IN  IF in # <<>> /\ Head(in) = "]" THEN Parsed(JArr(<<>>), Tail(in))
            ELSE ParseElems(in, <<>>)
    ELSE IF Head(bs) = "{" THEN
        LET in == TrimStart(Tail(bs))
        IN  IF in = <<>> THEN ParseError
            ELSE IF Head(in) = "}" THEN Parsed(JObjEmpty, Tail(in))
            ELSE IF Head(in) # "\"" THEN ParseError
            ELSE LET k == ParseChars(Tail(in), <<>>)
                     colon == TrimStart(k.rest)
                 IN  IF ~k.ok \/ colon = <<>> \/ Head(colon) # ":"
                     THEN ParseError
                     ELSE LET m == ParseValue(Tail(colon))
                              close == TrimStart(m.rest)
                          IN  IF m.ok /\ close # <<>> /\ Head(close) = "}"
                              THEN Parsed(JObj(k.s, m.v), Tail(close))
                              ELSE ParseError
    ELSE ParseError
ParseElems(bs, acc) ==
    LET e == ParseValue(bs)
        next == TrimStart(e.rest)
    IN  IF ~e.ok \/ next = <<>> THEN ParseError
        ELSE IF Head(next) = "," THEN ParseElems(Tail(next), Append(acc, e.v))
        ELSE IF Head(next) = "]"
            THEN Parsed(JArr(Append(acc, e.v)), Tail(next))
        ELSE ParseError

\* the whole slice must be one value, white space aside
FromSlice(bs) ==
    LET r == ParseValue(bs)
    IN  IF r.ok /\ TrimStart(r.rest) = <<>> THEN r ELSE ParseError

\* The values written: scalars, strings with characters that are escaped or
\* take two bytes, arrays and objects, nested.
JsonValues ==
    { JNull, JBool(TRUE), JBool(FALSE), JNum(0), JNum(7), JNum(120),
      JStr(<<>>), JStr(<<"a", " ", "b">>), JStr(<<"\"", "\\">>),
      JStr(<<"e_acute">>), JStr(<<"CR", "LF", "CR", "LF">>),
      JStr(<<"1", ":", " ", "2">>),
      JArr(<<>>), JArr(<<JNum(7), JStr(<<"e_acute", "LF">>)>>),
      JArr(<<JArr(<<JNull>>), JBool(FALSE), JObjEmpty>>),
      JObjEmpty, JObj(<<"i", "d">>, JNum(10)),
      JObj(<<"r", "e_acute">>, JArr(<<JStr(<<"\"">>), JObj(<<>>, JNull)>>)) }

ValueSeqs ==
    UNION { [1..k -> JsonValues] : k \in 1..MaxVals }

FrameInit ==
    ClientInit /\ fr_vals \in ValueSeqs /\ FrameStart
        /\ use_lsp = TRUE /\ FacadeStart /\ CoordStart
        /\ DispatchStart /\ HoverStart /\ OpenStart

\* write_message: write_all(header.as_bytes())
FrWriteHeader ==
    /\ fr_wpos = "header"
    /\ fr_next <= Len(fr_vals)
    /\ fr_stream' = fr_stream \o HeaderBytes(ToJsonString(fr_vals[fr_next]))
    /\ fr_wpos' = "body"
    /\ UNCHANGED <<fr_vals, fr_next, fr_phase, fr_cl, fr_out>>
    /\ UNCHANGED <<client, env, chans, tasks, hist>>
    /\ UNCHANGED ghost
    /\ UNCHANGED facade
    /\ UNCHANGED <<coord, dispatch, hovers, opens, pipes>>

\* write_message: write_all(content.as_bytes()) and flush
FrWriteBody ==
    /\ fr_wpos = "body"
    /\ fr_stream' = fr_stream \o ToJsonString(fr_vals[fr_next])
    /\ fr_next' = fr_next + 1
    /\ fr_wpos' = "header"
    /\ UNCHANGED <<fr_vals, fr_phase, fr_cl, fr_out>>
    /\ UNCHANGED <<client, env, chans, tasks, hist>>
    /\ UNCHANGED ghost
    /\ UNCHANGED facade
    /\ UNCHANGED <<coord, dispatch, hovers, opens, pipes>>

\* reader_task, the header loop: one read_line.  An empty line ends the
\* headers; a line "key: value" is put in the map, of which only the entry
\* "Content-Length" is read later; any other line is skipped.
FrReadLine ==
    /\ fr_phase = "headers"
    /\ HasLine(fr_stream)
    /\ LET k == FirstLF(fr_stream)
           raw == SubSeq(fr_stream, 1, k)
           line == Trim(raw)
       IN  /\ fr_stream' = Drop(fr_stream, k)
           /\ IF ~ValidUtf8(raw)
              THEN fr_phase' = "stopped" /\ UNCHANGED fr_cl
              ELSE IF line = <<>>
              THEN fr_phase' = "content" /\ UNCHANGED fr_cl
              ELSE /\ fr_phase' = "headers"
                   /\ IF HasSeparator(line)
                         /\ SplitOnce(line).key = ContentLengthKey
                      THEN fr_cl' = [set |-> TRUE, v |-> SplitOnce(line).value]
                      ELSE UNCHANGED fr_cl
    /\ UNCHANGED <<fr_vals, fr_next, fr_wpos, fr_out>>
    /\ UNCHANGED <<client, env, chans, tasks, hist>>
    /\ UNCHANGED ghost
    /\ UNCHANGED facade
    /\ UNCHANGED <<coord, dispatch, hovers, opens, pipes>>

\* reader_task, after the headers: read_exact of Content-Length bytes and
\* from_slice; without a length that parses nothing is read.  Then the loop
\* starts over with headers.clear().
FrReadContent ==
    /\ fr_phase = "content"
    /\ LET length == ParseUsize(fr_cl.v)
       IN  IF fr_cl.set /\ length.ok
           THEN /\ Len(fr_stream) >= length.n
                /\ fr_stream' = Drop(fr_stream, length.n)
                /\ LET json == FromSlice(SubSeq(fr_stream, 1, length.n))
                   IN  fr_out' = IF json.ok THEN Append(fr_out, json.v)
                                 ELSE fr_out
           ELSE UNCHANGED <<fr_stream, fr_out>>
    /\ fr_phase' = "headers"
    /\ fr_cl' = [set |-> FALSE, v |-> <<>>]
    /\ UNCHANGED <<fr_vals, fr_next, fr_wpos>>
    /\ UNCHANGED <<client, env, chans, tasks, hist>>
    /\ UNCHANGED ghost
    /\ UNCHANGED facade
    /\ UNCHANGED <<coord, dispatch, hovers, opens, pipes>>

\* reader_task waits for bytes: for the end of a line, or for the rest of a
\* body.
ReaderWaits ==
    \/ fr_phase = "headers" /\ ~HasLine(fr_stream)
    \/ /\ fr_phase = "content"
       /\ fr_cl.set /\ ParseUsize(fr_cl.v).ok
       /\ Len(fr_stream) < ParseUsize(fr_cl.v).n

FrameNext ==
    \/ FrWriteHeader
    \/ FrWriteBody
    \/ FrReadLine
    \/ FrReadContent

SpecFrame == FrameInit /\ [][FrameNext]_vars

\* ===================================================== the analyzer facade
\* RustAnalyzer: the slot self.lsp_client (a Mutex around Option<LspClient>),
\* the toggle self.use_lsp, the operations that go through the slot, the
\* background initialization started by the MCP initialize request, and the
\* drop of the facade.  An LspClient is seen here from outside: whether it
\* is initialized, whether it holds its Child, and what its process does.


\* The operations of the facade that go to the backend.
FacadeOps ==
    { "hover", "completions", "find_references", "rename",
      "signature_help", "find_implementations" }

\* The operations that begin with
\* if self.use_lsp { lock; if is_none { *guard = try_initialize_lsp() } }.
LazyOps == { "hover", "completions" }

\* if self.use_lsp, in hover and completions.
LazyGuardAlways(use) == TRUE
LazyGuard(use) == use

\* if !self.use_lsp { return } in start_lsp_initialization.
BackgroundGuard(use) == use

\* if lsp_guard.is_none(): what the operation looks at before it connects.
\* The state of the stored client and of its process is not looked at.
NeedsConnect(slot) == slot = 0

\* LspClient::new: nothing started.
NewClient == [st |-> "local", init |-> FALSE, held |-> FALSE, proc |-> "none"]

\* impl Drop for LspClient (and kill_on_drop(true) of the Child it holds):
\* the client as it is left by its drop.
\* Of a dropped client only its process is left to look at: "killed" by
\* the drop, "running" still, or "gone" (never spawned, or exited before).
DropLeaves(c) ==
    [st |-> "dropped", init |-> FALSE, held |-> FALSE,
     proc |-> IF c.proc = "running" THEN "running" ELSE "gone"]
DropClient(c) ==
    [st |-> "dropped", init |-> FALSE, held |-> FALSE,
     proc |-> IF c.proc = "running"
              THEN (IF c.held THEN "killed" ELSE "running")
              ELSE "gone"]

\* LspClient::shutdown, seen from outside: nothing for a client that is not
\* initialized; else the process is taken, waited for and killed.
ShutdownClient(c) ==
    IF ~c.init THEN c
    ELSE [c EXCEPT !.init = FALSE, !.held = FALSE,
                   !.proc = IF c.held /\ c.proc = "running" THEN "exited"
                            ELSE c.proc]

\* What a per-operation call on a client can return (send_request).
ClientOutcomes(c) ==
    IF ~c.init THEN {"not_initialized"}
    ELSE IF c.proc = "running"
    THEN {"ok", "ok_unknown_shape", "lsp_error", "timeout", "closed"}
    ELSE {"write_failed", "timeout", "closed"}

\* What each operation returns when there is no client in the slot.
FallbackNull(o) == "none"
Fallback(o) ==
    CASE o = "hover" -> "none"
      [] o \in {"completions", "find_references", "find_implementations"}
            -> "empty_seq"
      [] o = "rename" -> "error_payload"
      [] o = "signature_help" -> "empty_object"

\* What each operation makes of what the client returned: the match on
\* client.<op>(params).await.  Every arm is an Ok(..).
FacadeResultPropagates(o, out) ==
    IF out \in {"ok", "ok_unknown_shape"} THEN "value" ELSE "hard_error"
FacadeResult(o, out) ==
    CASE out = "ok" ->
            (CASE o = "hover" -> "some"
               [] o \in {"completions", "find_references",
                         "find_implementations"} -> "seq"
               [] OTHER -> "value")
      [] out = "ok_unknown_shape" ->
            (CASE o = "hover" -> "none"
               [] o \in {"completions", "find_references",
                         "find_implementations"} -> "empty_seq"
               [] OTHER -> "value")
      [] OTHER -> Fallback(o)

\* The values an operation may give to the dispatch layer as Ok(..).
NormalResults ==
    {"none", "some", "empty_seq", "seq", "empty_object", "value",
     "error_payload"}

rest == <<client, env, chans, tasks, hist, ghost, frame, coord, dispatch,
          hovers, opens, pipes>>

FacadeInit ==
    /\ ClientInit /\ fr_vals = <<>> /\ FrameStart
    /\ use_lsp \in BOOLEAN
    /\ FacadeStart
    /\ CoordStart /\ DispatchStart /\ HoverStart /\ OpenStart

\* The tasks that will still call LspClient::new (each is counted against
\* the bound on clients before it starts).
WillCreate ==
    Cardinality({t \in FCallers : fpc[t] \in {"check", "new"}})
        + Cardinality({t \in BgTasks : fpc[t] = "new"})

\* The clients whose backend process is running.
Running == {k \in Cids : cl[k].proc = "running"}

\* An operation of the facade is called.
FCall(t, o) ==
    /\ t \in FCallers /\ fpc[t] = "idle" /\ ~dropped
    /\ created + WillCreate < MaxClients
    /\ fop' = [fop EXCEPT ![t] = o]
    /\ fpc' = [fpc EXCEPT ![t] =
                  IF o \in LazyOps /\ LazyGuard(use_lsp) THEN "check"
                  ELSE "lock2"]
    /\ UNCHANGED <<use_lsp, lsp_client, guard, cl, created, fcl, fres,
                   dropped, sd_cl, sd_pc, found_none, found_dead, attempted,
                   lazy_failed>>
    /\ UNCHANGED rest

\* let mut lsp_guard = self.lsp_client.lock().await; is_none() is false:
\* the guard is dropped at the end of the block.
FCheckSome(t) ==
    /\ fpc[t] = "check" /\ guard = 0
    /\ ~NeedsConnect(lsp_client)
    /\ found_dead' = [found_dead EXCEPT ![t] = cl[lsp_client].proc # "running"]
    /\ fpc' = [fpc EXCEPT ![t] = "lock2"]
    /\ UNCHANGED <<use_lsp, lsp_client, guard, cl, created, fop, fcl, fres,
                   dropped, sd_cl, sd_pc, found_none, attempted,
                   lazy_failed>>
    /\ UNCHANGED rest

\* is_none() is true: try_initialize_lsp() is called with the guard held.
FCheckNone(t) ==
    /\ fpc[t] = "check" /\ guard = 0
    /\ NeedsConnect(lsp_client)
    /\ guard' = t
    /\ found_none' = [found_none EXCEPT ![t] = TRUE]
    /\ fpc' = [fpc EXCEPT ![t] = "new"]
    /\ UNCHANGED <<use_lsp, lsp_client, cl, created, fop, fcl, fres,
                   dropped, sd_cl, sd_pc, found_dead, attempted,
                   lazy_failed>>
    /\ UNCHANGED rest

\* LspClient::new(config), in try_initialize_lsp and in the background task.
FNewClient(t) ==
    /\ fpc[t] = "new"
    /\ created < MaxClients
    /\ created' = created + 1
    /\ cl' = [cl EXCEPT ![created + 1] = NewClient]
    /\ fcl' = [fcl EXCEPT ![t] = created + 1]
    /\ attempted' = [f \in FCallers |-> IF f = t THEN TRUE ELSE attempted[f]]
    /\ fpc' = [fpc EXCEPT ![t] = "spawn"]
    /\ UNCHANGED <<use_lsp, lsp_client, guard, fop, fres, dropped, sd_cl,
                   sd_pc, found_none, found_dead, lazy_failed>>
    /\ UNCHANGED rest

\* match client.initialize().await { Ok(_) => Some(client) / *guard =
\* Some(client), Err(e) => None / nothing }: the arm taken.
AfterInitializeAlwaysOk(ok) == "init_ok"
AfterInitialize(ok) == IF ok THEN "init_ok" ELSE "init_err"

\* client.initialize(): start_server spawns the backend.
FSpawnOk(t) ==
    /\ fpc[t] = "spawn"
    /\ cl' = [cl EXCEPT ![fcl[t]] = [@ EXCEPT !.held = TRUE, !.proc = "running"]]
    /\ fpc' = [fpc EXCEPT ![t] = "handshake"]
    /\ UNCHANGED <<use_lsp, lsp_client, guard, created, fop, fcl, fres,
                   dropped, sd_cl, sd_pc, found_none, found_dead, attempted,
                   lazy_failed>>
    /\ UNCHANGED rest

\* client.initialize(): cmd.spawn() fails.
FSpawnFails(t) ==
    /\ fpc[t] = "spawn"
    /\ fpc' = [fpc EXCEPT ![t] = AfterInitialize(FALSE)]
    /\ UNCHANGED <<use_lsp, lsp_client, guard, cl, created, fop, fcl, fres,
                   dropped, sd_cl, sd_pc, found_none, found_dead, attempted,
                   lazy_failed>>
    /\ UNCHANGED rest

\* client.initialize() returns Ok: the handshake was answered and the
\* "initialized" notification was written.
FHandshakeOk(t) ==
    /\ fpc[t] = "handshake"
    /\ cl[fcl[t]].proc = "running"
    /\ cl' = [cl EXCEPT ![fcl[t]] = [@ EXCEPT !.init = TRUE]]
    /\ fpc' = [fpc EXCEPT ![t] = AfterInitialize(TRUE)]
    /\ UNCHANGED <<use_lsp, lsp_client, guard, created, fop, fcl, fres,
                   dropped, sd_cl, sd_pc, found_none, found_dead, attempted,
                   lazy_failed>>
    /\ UNCHANGED rest

\* client.initialize() returns Err: the handshake request failed (the
\* client is left not initialized, its process held), or the handshake was
\* answered and the notification could not be written (marked = TRUE: the
\* client is left initialized).
FHandshakeFails(t, marked) ==
    /\ fpc[t] = "handshake"
    /\ cl' = [cl EXCEPT ![fcl[t]] = [@ EXCEPT !.init = marked]]
    /\ fpc' = [fpc EXCEPT ![t] = AfterInitialize(FALSE)]
    /\ UNCHANGED <<use_lsp, lsp_client, guard, created, fop, fcl, fres,
                   dropped, sd_cl, sd_pc, found_none, found_dead, attempted,
                   lazy_failed>>
    /\ UNCHANGED rest

\* try_initialize_lsp returns Some(client): *lsp_guard = Some(client), and
\* the guard is dropped.
FInitStored(t) ==
    /\ t \in FCallers /\ fpc[t] = "init_ok"
    /\ lsp_client' = fcl[t]
    /\ cl' = [cl EXCEPT ![fcl[t]] = [@ EXCEPT !.st = "stored"]]
    /\ guard' = 0
    /\ fcl' = [fcl EXCEPT ![t] = 0]
    /\ fpc' = [fpc EXCEPT ![t] = "lock2"]
    /\ UNCHANGED <<use_lsp, created, fop, fres, dropped, sd_cl, sd_pc,
                   found_none, found_dead, attempted, lazy_failed>>
    /\ UNCHANGED rest

\* try_initialize_lsp returns None: the client goes out of scope in the
\* Err arm, None is assigned to the slot, and the guard is dropped.
FInitFailed(t) ==
    /\ t \in FCallers /\ fpc[t] = "init_err"
    /\ cl' = [cl EXCEPT ![fcl[t]] = DropClient(@)]
    /\ lsp_client' = 0
    /\ guard' = 0
    /\ lazy_failed' = TRUE
    /\ fcl' = [fcl EXCEPT ![t] = 0]
    /\ fpc' = [fpc EXCEPT ![t] = "lock2"]
    /\ UNCHANGED <<use_lsp, created, fop, fres, dropped, sd_cl, sd_pc,
                   found_none, found_dead, attempted>>
    /\ UNCHANGED rest

\* if let Some(client) = self.lsp_client.lock().await.as_mut(): the guard
\* is held until the operation returns.
FLockSome(t) ==
    /\ fpc[t] = "lock2" /\ guard = 0
    /\ lsp_client # 0
    /\ guard' = t
    /\ found_dead' = [found_dead EXCEPT ![t] =
                         cl[lsp_client].proc # "running"]
    /\ fpc' = [fpc EXCEPT ![t] = "call"]
    /\ UNCHANGED <<use_lsp, lsp_client, cl, created, fop, fcl, fres,
                   dropped, sd_cl, sd_pc, found_none, attempted,
                   lazy_failed>>
    /\ UNCHANGED rest

\* The slot holds None: the else branch returns the fallback value.
FLockNone(t) ==
    /\ fpc[t] = "lock2" /\ guard = 0
    /\ lsp_client = 0
    /\ found_none' = [found_none EXCEPT ![t] = TRUE]
    /\ fres' = [fres EXCEPT ![t] = Fallback(fop[t])]
    /\ fpc' = [fpc EXCEPT ![t] = "done"]
    /\ UNCHANGED <<use_lsp, lsp_client, guard, cl, created, fop, fcl,
                   dropped, sd_cl, sd_pc, found_dead, attempted,
                   lazy_failed>>
    /\ UNCHANGED rest

\* match client.<op>(params).await { Ok(..) => .., Err(e) => .. }: the
\* operation returns and the guard is dropped.
FCallReturns(t, out) ==
    /\ fpc[t] = "call"
    /\ out \in ClientOutcomes(cl[lsp_client])
    /\ fres' = [fres EXCEPT ![t] = FacadeResult(fop[t], out)]
    /\ guard' = 0
    /\ fpc' = [fpc EXCEPT ![t] = "done"]
    /\ UNCHANGED <<use_lsp, lsp_client, cl, created, fop, fcl, dropped,
                   sd_cl, sd_pc, found_none, found_dead, attempted,
                   lazy_failed>>
    /\ UNCHANGED rest

\* The caller has its result; it may call again.
FDone(t) ==
    /\ t \in FCallers /\ fpc[t] = "done"
    /\ fpc' = [fpc EXCEPT ![t] = "idle"]
    /\ fop' = [fop EXCEPT ![t] = "none"]
    /\ fres' = [fres EXCEPT ![t] = "none"]
    /\ found_none' = [found_none EXCEPT ![t] = FALSE]
    /\ found_dead' = [found_dead EXCEPT ![t] = FALSE]
    /\ attempted' = [attempted EXCEPT ![t] = FALSE]
    /\ UNCHANGED <<use_lsp, lsp_client, guard, cl, created, fcl, dropped,
                   sd_cl, sd_pc, lazy_failed>>
    /\ UNCHANGED rest

\* start_lsp_initialization with the toggle on: the background task is
\* spawned; it takes no lock before it creates and initializes a client.
StartLspInitialization(t) ==
    /\ t \in BgTasks /\ fpc[t] = "idle" /\ ~dropped
    /\ BackgroundGuard(use_lsp)
    /\ created + WillCreate < MaxClients
    /\ fpc' = [fpc EXCEPT ![t] = "new"]
    /\ UNCHANGED <<use_lsp, lsp_client, guard, cl, created, fop, fcl, fres,
                   dropped, sd_cl, sd_pc, found_none, found_dead, attempted,
                   lazy_failed>>
    /\ UNCHANGED rest

\* start_lsp_initialization with the toggle off: it returns at once.
StartLspInitializationDisabled(t) ==
    /\ t \in BgTasks /\ fpc[t] = "idle" /\ ~dropped
    /\ ~BackgroundGuard(use_lsp)
    /\ fpc' = [fpc EXCEPT ![t] = "returned"]
    /\ UNCHANGED <<use_lsp, lsp_client, guard, cl, created, fop, fcl, fres,
                   dropped, sd_cl, sd_pc, found_none, found_dead, attempted,
                   lazy_failed>>
    /\ UNCHANGED rest

\* The background task, after Ok: let mut guard = lsp_client.lock().await
BgLocks(t) ==
    /\ t \in BgTasks /\ fpc[t] = "init_ok" /\ guard = 0
    /\ guard' = t
    /\ fpc' = [fpc EXCEPT ![t] = "store"]
    /\ UNCHANGED <<use_lsp, lsp_client, cl, created, fop, fcl, fres,
                   dropped, sd_cl, sd_pc, found_none, found_dead, attempted,
                   lazy_failed>>
    /\ UNCHANGED rest

\* *guard = Some(client): the client that was in the slot is dropped; the
\* guard is dropped and the task ends.
BgStores(t) ==
    /\ t \in BgTasks /\ fpc[t] = "store"
    /\ lsp_client' = fcl[t]
    /\ cl' = [k \in Cids |->
                 IF k = fcl[t] THEN [cl[k] EXCEPT !.st = "stored"]
                 ELSE IF k = lsp_client THEN DropClient(cl[k])
                 ELSE cl[k]]
    /\ guard' = 0
    /\ fcl' = [fcl EXCEPT ![t] = 0]
    /\ fpc' = [fpc EXCEPT ![t] = "ended"]
    /\ UNCHANGED <<use_lsp, created, fop, fres, dropped, sd_cl, sd_pc,
                   found_none, found_dead, attempted, lazy_failed>>
    /\ UNCHANGED rest

\* The background task, after Err: the client goes out of scope.
BgFails(t) ==
    /\ t \in BgTasks /\ fpc[t] = "init_err"
    /\ cl' = [cl EXCEPT ![fcl[t]] = DropClient(@)]
    /\ fcl' = [fcl EXCEPT ![t] = 0]
    /\ fpc' = [fpc EXCEPT ![t] = "ended"]
    /\ UNCHANGED <<use_lsp, lsp_client, guard, created, fop, fres, dropped,
                   sd_cl, sd_pc, found_none, found_dead, attempted,
                   lazy_failed>>
    /\ UNCHANGED rest

\* The MCP initialize request may come again.
BgAgain(t) ==
    /\ t \in BgTasks /\ fpc[t] \in {"ended", "returned"} /\ ~dropped
    /\ fpc' = [fpc EXCEPT ![t] = "idle"]
    /\ UNCHANGED <<use_lsp, lsp_client, guard, cl, created, fop, fcl, fres,
                   dropped, sd_cl, sd_pc, found_none, found_dead, attempted,
                   lazy_failed>>
    /\ UNCHANGED rest

\* The backend process of a client exits on its own.
FBackendCrashes(k) ==
    /\ cl[k].proc = "running"
    /\ cl' = [cl EXCEPT ![k] = [@ EXCEPT !.proc = "exited"]]
    /\ UNCHANGED <<use_lsp, lsp_client, guard, created, fpc, fop, fcl, fres,
                   dropped, sd_cl, sd_pc, found_none, found_dead, attempted,
                   lazy_failed>>
    /\ UNCHANGED rest

\* impl Drop for RustAnalyzer (no operation borrows the facade): with
\* try_lock, the client is taken out of the slot; inside a runtime
\* (rt = TRUE) a task is spawned that calls client.shutdown(), else the
\* closure is dropped and the client with it.  When try_lock fails nothing
\* is done.
FacadeDrop(rt) ==
    /\ ~dropped
    /\ \A t \in FCallers : fpc[t] = "idle"
    /\ dropped' = TRUE
    /\ IF guard = 0 /\ lsp_client # 0
       THEN /\ lsp_client' = 0
            /\ IF rt
               THEN /\ sd_cl' = lsp_client /\ sd_pc' = "shutdown"
                    /\ cl' = [cl EXCEPT ![lsp_client] = [@ EXCEPT !.st = "local"]]
               ELSE /\ cl' = [cl EXCEPT ![lsp_client] = DropClient(@)]
                    /\ UNCHANGED <<sd_cl, sd_pc>>
       ELSE UNCHANGED <<lsp_client, cl, sd_cl, sd_pc>>
    /\ UNCHANGED <<use_lsp, guard, created, fpc, fop, fcl, fres,
                   found_none, found_dead, attempted, lazy_failed>>
    /\ UNCHANGED rest

\* The spawned task: let _ = client.shutdown().await
SdShutdown ==
    /\ sd_pc = "shutdown"
    /\ cl' = [cl EXCEPT ![sd_cl] = ShutdownClient(@)]
    /\ sd_pc' = "drop"
    /\ UNCHANGED <<use_lsp, lsp_client, guard, created, fpc, fop, fcl, fres,
                   dropped, sd_cl, found_none, found_dead, attempted,
                   lazy_failed>>
    /\ UNCHANGED rest

\* The spawned task ends, or is dropped with its runtime before it ran:
\* the client it owns is dropped.
SdDrop ==
    /\ sd_pc \in {"shutdown", "drop"}
    /\ cl' = [cl EXCEPT ![sd_cl] = DropClient(@)]
    /\ sd_pc' = "ended"
    /\ UNCHANGED <<use_lsp, lsp_client, guard, created, fpc, fop, fcl, fres,
                   dropped, sd_cl, found_none, found_dead, attempted,
                   lazy_failed>>
    /\ UNCHANGED rest

\* The last Arc of the slot goes (the facade is dropped and no background
\* task holds a clone): the client still in the slot is dropped.
SlotDropped ==
    /\ dropped /\ lsp_client # 0
    /\ \A t \in BgTasks : fpc[t] \in {"idle", "ended", "returned"}
    /\ cl' = [cl EXCEPT ![lsp_client] = DropClient(@)]
    /\ lsp_client' = 0
    /\ UNCHANGED <<use_lsp, guard, created, fpc, fop, fcl, fres, dropped,
                   sd_cl, sd_pc, found_none, found_dead, attempted,
                   lazy_failed>>
    /\ UNCHANGED rest

FacadeNext ==
    \/ \E t \in FCallers, o \in FacadeOps : FCall(t, o)
    \/ \E t \in FCallers : FCheckSome(t)
    \/ \E t \in FCallers : FCheckNone(t)
    \/ \E t \in FTasks : FNewClient(t)
    \/ \E t \in FTasks : FSpawnOk(t)
    \/ \E t \in FTasks : FSpawnFails(t)
    \/ \E t \in FTasks : FHandshakeOk(t)
    \/ \E t \in FTasks, marked \in BOOLEAN : FHandshakeFails(t, marked)
    \/ \E t \in FCallers : FInitStored(t)
    \/ \E t \in FCallers : FInitFailed(t)
    \/ \E t \in FCallers : FLockSome(t)
    \/ \E t \in FCallers : FLockNone(t)
    \/ \E t \in FCallers, out \in {"ok", "ok_unknown_shape", "lsp_error",
                                   "timeout", "closed", "write_failed",
                                   "not_initialized"} : FCallReturns(t, out)
    \/ \E t \in FCallers : FDone(t)
    \/ \E t \in BgTasks : StartLspInitialization(t)
    \/ \E t \in BgTasks : StartLspInitializationDisabled(t)
    \/ \E t \in BgTasks : BgLocks(t)
    \/ \E t \in BgTasks : BgStores(t)
    \/ \E t \in BgTasks : BgFails(t)
    \/ \E t \in BgTasks : BgAgain(t)
    \/ \E k \in Cids : FBackendCrashes(k)
    \/ \E rt \in BOOLEAN : FacadeDrop(rt)
    \/ SdShutdown
    \/ SdDrop
    \/ SlotDropped

SpecFacade == FacadeInit /\ [][FacadeNext]_vars

\* ================================================ coordinate translation
\* Each position-based operation of the facade, once it has a client,
\* builds "position": { "line": line - 1, "character": column - 1 } from
\* its u32 arguments.  A u32 is kept as two 16-bit halves, so that the
\* subtraction has the width it has in the program.

\* u32 of a small natural number.
U32(n) == [hi |-> n \div Half, lo |-> n % Half]

\* u32::MAX
U32Max == [hi |-> Half - 1, lo |-> Half - 1]

\* a < b on u32.
LessU32(a, b) == a.hi < b.hi \/ (a.hi = b.hi /\ a.lo < b.lo)

\* a - b modulo 2^32.
WrappingSub(a, b) ==
    LET borrow == IF a.lo < b.lo THEN 1 ELSE 0
    IN  [hi |-> (a.hi - b.hi - borrow + 2 * Half) % Half,
         lo |-> (a.lo - b.lo + Half) % Half]

\* a - b on u32: with overflow checks (debug builds) an underflow panics,
\* without them (release builds) it wraps.
Overflow == [panic |-> TRUE]
SubU32Kept(a, b, checked) == a
SubU32(a, b, checked) ==
    IF checked /\ LessU32(a, b) THEN Overflow ELSE WrappingSub(a, b)

\* The position-based operations: all six take (line, column).
PositionOps == FacadeOps

\* The operation has sent a position, or has panicked before it sent one.
PositionBuilt(l, c) == [st |-> "sent", line |-> l, character |-> c]
Panicked == [st |-> "panic"]

\* The position an operation sends: json!({ "line": line - 1,
\* "character": column - 1 }); a panic in either subtraction unwinds the
\* operation.
PositionSent(o, line, column, checked) ==
    LET l == SubU32(line, U32(1), checked)
        c == SubU32(column, U32(1), checked)
    IN  IF l = Overflow \/ c = Overflow THEN Panicked
        ELSE PositionBuilt(l, c)

\* The lines and columns an operation is called with.
Lines == {U32(n) : n \in 0..MaxLine} \cup {U32Max}
Columns == {U32(n) : n \in 0..MaxColumn} \cup {U32Max}

others == <<client, env, chans, tasks, hist, ghost, frame, facade, dispatch,
            hovers, opens, pipes>>

\* An operation is called with (line, column) and has a client.
CoordInit ==
    /\ ClientInit /\ fr_vals = <<>> /\ FrameStart
    /\ use_lsp = TRUE /\ FacadeStart /\ DispatchStart /\ HoverStart /\ OpenStart
    /\ co_op \in PositionOps
    /\ co_line \in Lines
    /\ co_column \in Columns
    /\ co_sent = NotSent

\* The operation builds its params.
Translate(checked) ==
    /\ co_sent = NotSent
    /\ co_sent' = PositionSent(co_op, co_line, co_column, checked)
    /\ UNCHANGED <<co_op, co_line, co_column>>
    /\ UNCHANGED others

CoordNext == \E checked \in BOOLEAN : Translate(checked)

SpecCoord == CoordInit /\ [][CoordNext]_vars

\* ====================================================== request dispatch
\* McpServer::handle_request takes one line of text and gives back the
\* text of a response, the empty text (for a notification) or an Err.

\* The methods handle_request matches by name.
ProtocolMethods ==
    {"initialize", "tools/list", "tools/call", "resources/list",
     "resources/read", "prompts/list", "prompts/get", "completion/complete"}

\* The keys McpServer::new registers, by the handler registered for them.
AnalysisCommands ==
    {"analyze_symbol", "find_references", "get_diagnostics", "get_hover",
     "find_implementations"}
CompletionCommands ==
    {"complete", "signature_help", "get_completions", "resolve_import",
     "expand_snippet"}
RefactorCommands == {"rename", "extract_function", "inline", "organize_imports"}
MetricsCommands ==
    {"project_structure", "analyze_dependencies", "code_metrics",
     "find_dead_code", "suggest_improvements"}
commands ==
    AnalysisCommands \cup CompletionCommands \cup RefactorCommands
        \cup MetricsCommands

\* Method names that are neither.
UnknownMethods == {"invalid_method", "unknown_method"}

\* The inner "method" names the handler registered under a key accepts:
\* each handler matches params["method"] against its own family.
Family(name) ==
    IF name \in AnalysisCommands THEN AnalysisCommands
    ELSE IF name \in CompletionCommands THEN CompletionCommands
    ELSE IF name \in RefactorCommands THEN RefactorCommands
    ELSE MetricsCommands

\* "params": absent, or an object with some of the keys the handlers look
\* at.  The fields of "arguments" are kept beside "name".
NoParams == [some |-> FALSE, keys |-> {}, method |-> "", name |-> "",
             uri |-> "", line |-> U32(0), column |-> U32(0)]
Object(ks, m, n, u, l, c) ==
    [some |-> TRUE, keys |-> ks, method |-> m, name |-> n, uri |-> u,
     line |-> l, column |-> c]
PositionKeys == {"file", "line", "column"}
ParamValues ==
    {NoParams, Object({}, "", "", "", U32(0), U32(0))}
    \cup {Object({"method"}, m, "", "", U32(0), U32(0)) :
            m \in {"get_hover", "project_structure", "rename", "other"}}
    \cup {Object({"method"} \cup PositionKeys, "get_hover", "", "", l, c) :
            l \in {U32(0), U32(1)}, c \in {U32(0), U32(1)}}
    \cup {Object({"name"}, "", n, "", U32(0), U32(0)) :
            n \in {"get_hover", "analyze_code", "other"}}
    \cup {Object({"name", "arguments"} \cup PositionKeys, "", n, "", l, l) :
            n \in {"get_hover", "other"}, l \in {U32(0), U32(1)}}
    \cup {Object({"uri"}, "", "", u, U32(0), U32(0)) :
            u \in {"rust-analyzer://project/structure",
                   "rust-analyzer://project/dependencies", "other"}}
    \cup {Object({"ref"}, "", "", "", U32(0), U32(0))}

\* The "id" values of a request.
RequestIds == {JNum(1), JNum(2), JNull}

\* A line of input: text that is not JSON, or a JSON object.
Malformed == [line |-> "malformed"]
Json(hasid, id, hasmethod, method, params) ==
    [line |-> "json", has_id |-> hasid, id |-> id,
     has_method |-> hasmethod, method |-> method, params |-> params]
RequestLines ==
    {Malformed}
    \cup {Json(TRUE, i, TRUE, m, p) :
            i \in RequestIds,
            m \in ProtocolMethods \cup commands \cup UnknownMethods,
            p \in ParamValues}
    \cup {Json(TRUE, i, FALSE, "", p) : i \in RequestIds, p \in ParamValues}
    \cup {Json(FALSE, JNull, hm, "initialize", NoParams) : hm \in BOOLEAN}

\* What handle_request gives back.
Failed == [st |-> "err"]
Crashed == [st |-> "panic"]
Nothing == [st |-> "empty"]
Absent == [absent |-> TRUE]
ResultResponse(id, r) ==
    [st |-> "response", keys |-> {"jsonrpc", "id", "result"},
     jsonrpc |-> "2.0", id |-> id, result |-> r, error |-> Absent]
ErrorResponseKept(id, code) ==
    [st |-> "response", keys |-> {"jsonrpc", "error"},
     jsonrpc |-> "2.0", id |-> Absent, result |-> Absent,
     error |-> [code |-> code]]
ErrorResponse(id, code) ==
    [st |-> "response", keys |-> {"jsonrpc", "id", "error"},
     jsonrpc |-> "2.0", id |-> id, result |-> Absent,
     error |-> [code |-> code]]

\* JSON-RPC error codes used by the server.
MethodNotFound == 0 - 32601
InvalidParams == 0 - 32602
InternalError == 0 - 32603

\* What a command handler gives back: Ok(value), Err, or a panic.
HandlerOk(v) == [st |-> "ok", value |-> v]
HandlerErr == [st |-> "err"]
HandlerPanic == [st |-> "panic"]

\* RustAnalyzer::hover seen from its caller: with a client in the slot it
\* builds the position, which can panic; otherwise it falls back.
HoverCall(line, column, has_client, checked) ==
    IF has_client /\ PositionSent("hover", line, column, checked) = Panicked
        THEN HandlerPanic
        ELSE HandlerOk([value |-> "contents"])

\* AnalysisCommands::get_hover: PositionParams needs file, line, column;
\* the value echoes them.
GetHover(params, has_client, checked) ==
    IF ~params.some \/ ~(PositionKeys \subseteq params.keys)
        THEN HandlerErr
    ELSE IF HoverCall(params.line, params.column, has_client, checked)
                = HandlerPanic
        THEN HandlerPanic
    ELSE HandlerOk([contents |-> "contents", line |-> params.line,
                    column |-> params.column])

\* handler.handle(params, &self.analyzer) for the handler registered under
\* name: it runs the command named by params["method"], when its family has
\* one.  Only get_hover's body is followed; the others end in any of the
\* three ways.
Handle(name, params, has_client, checked) ==
    LET inner == IF params.some /\ "method" \in params.keys
                    THEN params.method ELSE ""
    IN  IF inner \notin Family(name) THEN {HandlerErr}
        ELSE IF inner = "get_hover"
            THEN {GetHover(params, has_client, checked)}
        ELSE {HandlerOk([value |-> "value"]), HandlerErr, HandlerPanic}

\* One outcome of handle_request with the handlers it invoked.
Returned(r, hs) == [reply |-> r, handled |-> hs]

\* The `_` arm: a registered command, or "Method not found".
CustomMethodKept(id, method, params, has_client, checked) ==
    {Returned(ErrorResponse(id, InternalError), {})}
CustomMethod(id, method, params, has_client, checked) ==
    IF method \in commands
        THEN {Returned(IF h = HandlerPanic THEN Crashed
                      ELSE IF h = HandlerErr
                          THEN ErrorResponse(id, InternalError)
                      ELSE ResultResponse(id, h.value), {method}) :
                h \in Handle(method, params, has_client, checked)}
        ELSE {Returned(ErrorResponse(id, MethodNotFound), {})}

\* handle_tools_call: method_params is "arguments" (or {}) with "method"
\* set to the tool's name.
HandleToolsCall(id, params, has_client, checked) ==
    IF params.some /\ "name" \in params.keys /\ params.name \in commands
        THEN LET method_params ==
                     [params EXCEPT
                        !.keys = (IF "arguments" \in params.keys
                                     THEN PositionKeys ELSE {})
                                 \cup {"method"},
                        !.method = params.name]
             IN  {Returned(IF h = HandlerPanic THEN Crashed
                          ELSE IF h = HandlerErr
                              THEN ErrorResponse(id, InternalError)
                          ELSE ResultResponse(id, [content |-> h.value]),
                          {params.name}) :
                    h \in Handle(params.name, method_params,
                                 has_client, checked)}
        ELSE {Returned(ErrorResponse(id, InvalidParams), {})}

\* handle_resources_read: two URIs, each read through a command.
ResourceCommand(uri) ==
    IF uri = "rust-analyzer://project/structure" THEN "project_structure"
    ELSE IF uri = "rust-analyzer://project/dependencies"
        THEN "analyze_dependencies"
    ELSE ""
HandleResourcesRead(id, params, has_client, checked) ==
    IF ~(params.some /\ "uri" \in params.keys)
        THEN {Returned(ErrorResponse(id, InvalidParams), {})}
    ELSE IF ResourceCommand(params.uri) = ""
        THEN {Returned(ErrorResponse(id, InvalidParams), {})}
    ELSE LET name == ResourceCommand(params.uri)
         IN  {Returned(IF h = HandlerPanic THEN Crashed
                      ELSE IF h = HandlerErr
                          THEN ErrorResponse(id, InternalError)
                      ELSE ResultResponse(id, [contents |-> h.value]),
                      {name}) :
                h \in Handle(name, Object({"method"}, name, "", "",
                                          U32(0), U32(0)),
                             has_client, checked)}

\* handle_prompts_get: four prompt names.
PromptNames ==
    {"analyze_code", "refactor_code", "explain_error", "optimize_code"}
HandlePromptsGet(id, params) ==
    IF params.some /\ "name" \in params.keys /\ params.name \in PromptNames
        THEN ResultResponse(id, [value |-> "prompt"])
        ELSE ErrorResponse(id, InvalidParams)

\* handle_completion_complete: needs "ref".
HandleCompletionComplete(id, params) ==
    IF params.some /\ "ref" \in params.keys
        THEN ResultResponse(id, [value |-> "completion"])
        ELSE ErrorResponse(id, InvalidParams)

\* handle_request: the outcomes for one line.
Dispatch(v, has_client, checked) ==
    IF v = Malformed THEN {Returned(Failed, {})}
    ELSE IF ~v.has_id THEN {Returned(Nothing, {})}
    ELSE IF ~v.has_method THEN {Returned(Failed, {})}
    ELSE IF v.method \in {"initialize", "tools/list", "resources/list",
                          "prompts/list"}
        THEN {Returned(ResultResponse(v.id, [value |-> v.method]), {})}
    ELSE IF v.method = "tools/call"
        THEN HandleToolsCall(v.id, v.params, has_client, checked)
    ELSE IF v.method = "resources/read"
        THEN HandleResourcesRead(v.id, v.params, has_client, checked)
    ELSE IF v.method = "prompts/get"
        THEN {Returned(HandlePromptsGet(v.id, v.params), {})}
    ELSE IF v.method = "completion/complete"
        THEN {Returned(HandleCompletionComplete(v.id, v.params), {})}
    ELSE CustomMethod(v.id, v.method, v.params, has_client, checked)

unrelated == <<client, env, chans, tasks, hist, ghost, frame, facade, coord,
               hovers, opens, pipes>>

\* A line arrives.
ReadLine(l) ==
    /\ json_value = NoRequest
    /\ json_value' = l
    /\ UNCHANGED <<reply, handled>>
    /\ UNCHANGED unrelated

\* handle_request runs on it, with or without a client in the slot, in a
\* build with or without overflow checks.
HandleRequest(has_client, checked) ==
    /\ json_value # NoRequest
    /\ reply = NoReply
    /\ \E o \in Dispatch(json_value, has_client, checked) :
          /\ reply' = o.reply
          /\ handled' = o.handled
    /\ UNCHANGED json_value
    /\ UNCHANGED unrelated

\* The caller's loop goes on to the next line, unless the process is gone.
NextLine ==
    /\ reply \notin {NoReply, Crashed}
    /\ json_value' = NoRequest
    /\ reply' = NoReply
    /\ handled' = {}
    /\ UNCHANGED unrelated

DispatchInit ==
    /\ ClientInit /\ fr_vals = <<>> /\ FrameStart
    /\ use_lsp = TRUE /\ FacadeStart /\ CoordStart
    /\ DispatchStart /\ HoverStart /\ OpenStart

DispatchNext ==
    \/ \E l \in RequestLines : ReadLine(l)
    \/ \E has_client \in BOOLEAN, checked \in BOOLEAN :
          HandleRequest(has_client, checked)
    \/ NextLine

SpecDispatch == DispatchInit /\ [][DispatchNext]_vars

\* =================================================== hover normalization
\* RustAnalyzer::hover turns the backend's hover result into Option<String>.
\* JSON values of the result: a string is a sequence of characters, an
\* object a record of its fields, an array a sequence of values.

\* Longest "contents" array.
MaxEntries == 2

Text(s) == [t |-> "str", s |-> s]
Marked(fields) == [t |-> "obj", f |-> fields]
List(items) == [t |-> "arr", a |-> items]
Number == [t |-> "num"]
Null == [t |-> "null"]

FnFoo == <<"f", "n", " ", "f", "o", "o", "(", ")">>
Doc == <<"d", "o", "c">>
Rust == <<"r", "u", "s", "t">>

\* What an entry of a "contents" array can be.
HoverEntries ==
    {Text(FnFoo), Text(<<>>), Marked([value |-> Text(FnFoo)]),
     Marked([language |-> Text(Rust), value |-> Text(Doc)]),
     Marked([language |-> Text(Rust)]), Number}

\* The arrays of up to n entries.
RECURSIVE EntryLists(_)
EntryLists(n) ==
    IF n = 0 THEN {<<>>}
    ELSE LET shorter == EntryLists(n - 1)
         IN  shorter \cup {Append(l, e) : l \in {x \in shorter : Len(x) = n - 1},
                                           e \in HoverEntries}

\* What "contents" can be.
HoverContents ==
    {Text(FnFoo), Text(Doc), Text(<<>>), Null, Number, Marked([kind |-> Null]),
     Marked([value |-> Text(FnFoo)]), Marked([value |-> Text(<<>>)]),
     Marked([kind |-> Text(Doc), value |-> Text(FnFoo)]),
     Marked([kind |-> Text(Doc)]), Marked([value |-> Number])}
    \cup {List(l) : l \in EntryLists(MaxEntries)}

\* What client.hover(params) gives: Err, or Ok(result) where result has
\* "contents" or not.
HoverErr == [shape |-> "err"]
HoverOk(has, c) == [shape |-> "ok", has_contents |-> has, contents |-> c]
HoverResults ==
    {HoverErr, HoverOk(FALSE, Null)} \cup {HoverOk(TRUE, c) : c \in HoverContents}

\* Option<String>.
SomeText(s) == [shape |-> "some", text |-> s]
NoneText == [shape |-> "nothing"]

\* contents.get("value").and_then(|v| v.as_str()): Value::get with a string
\* index finds a field of an object only.
ValueStr(v) ==
    IF v.t = "obj" /\ "value" \in DOMAIN v.f /\ v.f.value.t = "str"
        THEN SomeText(v.f.value.s)
        ELSE NoneText

\* The filter_map over the array: a string, or an object's string "value";
\* anything else is left out.
RECURSIVE FilterMap(_)
FilterMap(arr) ==
    IF arr = <<>> THEN <<>>
    ELSE LET item == Head(arr)
             kept == IF item.t = "str" THEN <<item.s>>
                     ELSE IF ValueStr(item) # NoneText
                         THEN <<ValueStr(item).text>>
                     ELSE <<>>
         IN  kept \o FilterMap(Tail(arr))

\* .join("\n\n")
BlankLineKept == <<"LF">>
BlankLine == <<"LF", "LF">>
RECURSIVE Join(_)
Join(strs) ==
    IF strs = <<>> THEN <<>>
    ELSE IF Len(strs) = 1 THEN Head(strs)
    ELSE Head(strs) \o BlankLine \o Join(Tail(strs))

\* The match on client.hover(params).await.
HoverText(r) ==
    IF r = HoverErr THEN NoneText
    ELSE IF ~r.has_contents THEN NoneText
    ELSE LET contents == r.contents
         IN  IF ValueStr(contents) # NoneText THEN ValueStr(contents)
             ELSE IF contents.t = "obj" THEN NoneText
             ELSE IF contents.t = "str" THEN SomeText(contents.s)
             ELSE IF contents.t = "arr"
                 THEN LET combined == Join(FilterMap(contents.a))
                      IN  IF combined # <<>> THEN SomeText(combined)
                          ELSE NoneText
             ELSE NoneText

alien == <<client, env, chans, tasks, hist, ghost, frame, facade, coord,
           dispatch, opens, pipes>>

\* The backend has answered a hover request.
HoverInit ==
    /\ ClientInit /\ fr_vals = <<>> /\ FrameStart
    /\ use_lsp = TRUE /\ FacadeStart /\ CoordStart /\ DispatchStart
    /\ OpenStart
    /\ hv_result \in HoverResults
    /\ hv_text = NoHover

\* hover returns.
Normalize ==
    /\ hv_text = NoHover
    /\ hv_text' = HoverText(hv_result)
    /\ UNCHANGED hv_result
    /\ UNCHANGED alien

\* The next hover call gets its answer.
HoverAgain(r) ==
    /\ hv_text # NoHover
    /\ hv_result' = r
    /\ hv_text' = NoHover
    /\ UNCHANGED alien

HoverNext == Normalize \/ \E r \in HoverResults : HoverAgain(r)

SpecHover == HoverInit /\ [][HoverNext]_vars

\* ======================================================== did-open first
\* Each position-based operation that finds a client makes two calls on it:
\* client.did_open(path), whose result it discards, and then the
\* operation's own request.  did_open itself is not in lsp_client.rs; it is
\* taken here to be what the specification says it is, a did-open
\* notification for the file, sent through send_notification.

\* The files operations are called on.
Files == {"src/main.rs", "src/lib.rs"}

DidOpenMsg(f) == [method |-> "textDocument/didOpen", file |-> f]
RequestMsg(o, f) == [method |-> o, file |-> f]

\* The two calls, in the order the operation makes them.
ClientCallsKept == <<"request", "did_open">>
ClientCalls == <<"did_open", "request">>

apart == <<client, env, chans, tasks, hist, ghost, frame, facade, coord,
           dispatch, hovers, pipes>>

\* An operation is called and finds a client in the slot.
OpBegin(o, f) ==
    /\ do_op = "none"
    /\ do_op' = o
    /\ do_file' = f
    /\ do_pc' = 0
    /\ do_log' = <<>>
    /\ UNCHANGED <<do_alive, backend_open>>
    /\ UNCHANGED apart

\* client.did_open(path): the notification is written, and the backend
\* then holds the file open, whether or not it did before; when the write
\* fails the Err is discarded by `let _ =`.
DidOpen ==
    /\ do_log' = IF do_alive THEN Append(do_log, DidOpenMsg(do_file))
                 ELSE do_log
    /\ backend_open' = IF do_alive THEN backend_open \cup {do_file}
                       ELSE backend_open

\* client.hover(params) and the like: the request is written, or the write
\* fails and the operation falls back.
OpRequest ==
    /\ do_log' = IF do_alive THEN Append(do_log, RequestMsg(do_op, do_file))
                 ELSE do_log
    /\ UNCHANGED backend_open

\* The operation makes its next call.
OpCall ==
    /\ do_op # "none"
    /\ do_pc < Len(ClientCalls)
    /\ do_pc' = do_pc + 1
    /\ IF ClientCalls[do_pc + 1] = "did_open" THEN DidOpen ELSE OpRequest
    /\ UNCHANGED <<do_op, do_file, do_alive>>
    /\ UNCHANGED apart

\* The operation returns.
OpReturn ==
    /\ do_op # "none"
    /\ do_pc = Len(ClientCalls)
    /\ do_op' = "none"
    /\ do_file' = "none"
    /\ do_pc' = 0
    /\ UNCHANGED <<do_log, do_alive, backend_open>>
    /\ UNCHANGED apart

\* The backend exits: writes to it fail from now on.
OpBackendExits ==
    /\ do_alive
    /\ do_alive' = FALSE
    /\ UNCHANGED <<do_pc, do_op, do_file, do_log, backend_open>>
    /\ UNCHANGED apart

OpenNext ==
    \/ \E o \in PositionOps, f \in Files : OpBegin(o, f)
    \/ OpCall
    \/ OpReturn
    \/ OpBackendExits

SpecOpen == Init /\ [][OpenNext]_vars

\* ================================== what the backend writes, byte by byte
\* reader_task reads the stdout of the backend, whose frames the client does
\* not produce: a frame is a header block, an empty line and a body, and the
\* header block has a Content-Length with the length of the body ("good"),
\* has another field but no Content-Length ("missing"), or has a
\* Content-Length that is no number ("unparseable").  Here fr_vals is the
\* sequence of frames the backend writes, [hdr, v], fr_next the frame it is
\* writing and fr_wpos where in that frame it stands.
HeaderKinds == {"good", "missing", "unparseable"}

CrLf == <<"CR", "LF">>

BackendHeader(hdr, content) ==
    CASE hdr = "good" -> HeaderBytes(content)
      [] hdr = "missing" ->
            <<"T", "y", "p", "e", ":", " ", "x">> \o CrLf \o CrLf
      [] hdr = "unparseable" ->
            ContentLengthKey \o <<":", " ", "x", "1">> \o CrLf \o CrLf

\* The bodies: responses to requests 1 and 2, and a notification.
BackendValues ==
    { JObj(<<"i", "d">>, JNum(1)), JObj(<<"i", "d">>, JNum(2)),
      JObj(<<"m">>, JStr(<<"l", "o", "g">>)) }

BackendFrames == [hdr : HeaderKinds, v : BackendValues]

BackendSeqs == UNION { [1..k -> BackendFrames] : k \in 1..MaxVals }

DecodeInit ==
    ClientInit /\ fr_vals \in BackendSeqs /\ FrameStart
        /\ use_lsp = TRUE /\ FacadeStart /\ CoordStart
        /\ DispatchStart /\ HoverStart /\ OpenStart

\* The backend writes the header block of its next frame.
BkWriteHeader ==
    /\ fr_wpos = "header"
    /\ fr_next <= Len(fr_vals)
    /\ fr_stream' = fr_stream \o BackendHeader(fr_vals[fr_next].hdr,
                                     ToJsonString(fr_vals[fr_next].v))
    /\ fr_wpos' = "body"
    /\ UNCHANGED <<fr_vals, fr_next, fr_phase, fr_cl, fr_out>>
    /\ UNCHANGED <<client, env, chans, tasks, hist>>
    /\ UNCHANGED ghost
    /\ UNCHANGED facade
    /\ UNCHANGED <<coord, dispatch, hovers, opens, pipes>>

\* The backend writes the body of that frame.
BkWriteBody ==
    /\ fr_wpos = "body"
    /\ fr_stream' = fr_stream \o ToJsonString(fr_vals[fr_next].v)
    /\ fr_next' = fr_next + 1
    /\ fr_wpos' = "header"
    /\ UNCHANGED <<fr_vals, fr_phase, fr_cl, fr_out>>
    /\ UNCHANGED <<client, env, chans, tasks, hist>>
    /\ UNCHANGED ghost
    /\ UNCHANGED facade
    /\ UNCHANGED <<coord, dispatch, hovers, opens, pipes>>

DecodeNext ==
    \/ BkWriteHeader
    \/ BkWriteBody
    \/ FrReadLine
    \/ FrReadContent

SpecDecode == DecodeInit /\ [][DecodeNext]_vars

\* ================================================================= claims

\* Positions at which a caller's request holds an id: registered, being
\* written, or awaiting its response.
InRequest == {"wh", "wb", "await", "timedout"}

\* No part of the client, of the backend's side or of any caller changes
\* (the history variable miss aside).
NothingObservable ==
    UNCHANGED <<client, env, chans, tasks, issued, prev_shutdown,
                ever_initialized, frame>>

\* C1: a per-operation call made while the client is not initialized returns
\* the "not initialized" error at once: it was given no request id (so no
\* entry is registered and nothing is written), and the only request that is
\* registered or written while the client is not initialized is the
\* initialize handshake.  The guard rejects every per-operation method.
C1_NotInitializedRejected ==
    /\ \A m \in PerOpMethods : ~SendRequestAccepts(FALSE, m)
    /\ SendRequestAccepts(FALSE, InitializeMethod)
    /\ \A c \in Callers :
        /\ (pc[c] \in InRequest \cup {"sr_ret"} /\ ~initialized)
              => op[c] = InitializeMethod
        /\ (op[c] \in PerOpMethods /\ ~initialized /\ pc[c] # "sr")
              => (pc[c] = "done" /\ res[c] = "not_initialized" /\ rid[c] = 0)

\* C1 witness: after a shutdown, a per-operation call was rejected.
C1_Witness ==
    \E c \in Callers :
        /\ pc[c] = "done" /\ op[c] \in PerOpMethods
        /\ res[c] = "not_initialized"
        /\ ever_initialized /\ ~initialized

\* C2: once a response for id k has been delivered, the entry of k is out
\* of the map, what was delivered is never replaced (it can only be taken by
\* the waiting caller, who then returns exactly that outcome), and a further
\* response for k changes nothing.
C2_CorrelatorExclusivity ==
    [][ /\ \A k \in Ids :
             chan[k] \in {"ok", "err"} =>
                /\ k \notin response_map
                /\ chan'[k] \in {chan[k], "gone"}
                /\ \A c \in Callers :
                     (rid[c] = k /\ pc[c] = "await" /\ pc'[c] # "await")
                        => res'[c] = Outcome(chan[k])
        /\ \/ NothingObservable
           \/ \A p \in Pids, m \in Incoming :
                 ~(IsDup(m) /\ ReaderHandles(p, m))
      ]_vars

\* C2 witness: a second response arrived for an id already resolved.
C2_Witness == miss = "dup"

\* C3: a frame for which the map holds no Sender (an id never registered,
\* already resolved, or removed on timeout) changes neither the map, nor any
\* channel, nor any caller, nor the reader task that handled it.
C3_MissIsSilent ==
    [][ \/ NothingObservable
        \/ \A p \in Pids, m \in Incoming :
              ~(~(m.id # 0 /\ m.id \in response_map) /\ ReaderHandles(p, m))
      ]_vars

\* C3 witness: a response arrived for an entry removed on timeout.
C3_Witness == miss = "late"

\* C4: the ids handed out are 1, 2, 3, ... in this order; every key of the
\* map is an id handed out before; two callers never hold the same id.
C4_RequestIdsUnique ==
    /\ \A i \in 1..Len(issued) : issued[i] = FirstRequestId + (i - 1)
    /\ request_id = FirstRequestId + Len(issued)
    /\ \A k \in response_map : k < request_id
    /\ \A c, d \in Callers : (c # d /\ rid[c] # 0) => rid[c] # rid[d]

\* C4 witness: three ids were handed out and two entries are pending at once.
C4_Witness == Len(issued) >= 3 /\ Cardinality(response_map) >= 2

\* C5 (as claimed): while request A awaits its response, a request B that
\* another caller has issued on the same client is in flight too: B can be
\* registered and written without waiting for A's response or timeout.
C5_ConcurrentInFlight ==
    \A a, b \in Callers :
        (a # b /\ pc[a] = "await" /\ op[a] \in PerOpMethods /\ pc[b] = "lock")
            => ENABLED (\E o \in CalledMethods : Acquire(b, o))

\* C6: the step that ends a timed-out request removes exactly its own id
\* from the map and gives the timeout error to its caller; no other caller
\* and no channel changes.
C6_TimeoutRemovesOwnEntry ==
    [][ \A c \in Callers :
          (pc[c] = "timedout" /\ pc'[c] # "timedout") =>
             /\ response_map' = response_map \ {rid[c]}
             /\ rid[c] \notin response_map'
             /\ res'[c] = "timeout"
             /\ chan' = chan
             /\ \A d \in Callers \ {c} : pc'[d] = pc[d] /\ res'[d] = res[d]
      ]_vars

\* C6 witness: a request timed out while another entry stays pending.
C6_Witness ==
    \E c \in Callers :
        pc[c] = "sr_ret" /\ res[c] = "timeout" /\ response_map # {}

\* C7: what is in the pipe to a running backend decodes, frame by frame, to
\* the contents of the messages written to it, one frame per message and in
\* the order of the writes; only the message being written may still lack
\* its body, and then its writer holds the lock on stdin.
C7_WriteAtomicity ==
    \A p \in Pids :
        LET f == Frames(wire[p])
            n == Len(msgs[p])
        IN  /\ f.ok
            /\ Len(f.frames) \in {n, n - 1}
            /\ \A i \in 1..Len(f.frames) : f.frames[i] = Content(msgs[p][i])
            /\ Len(f.frames) = n => f.rest = <<>>
            /\ Len(f.frames) = n - 1 =>
                  /\ f.rest = <<Header(Content(msgs[p][n]))>>
                  /\ stdin_lock # 0 /\ pc[stdin_lock] \in {"wb", "nb"}

\* C7 witness: two complete frames are in the pipe and a third message is
\* being written.
C7_Witness ==
    \E p \in Pids :
        /\ Len(Frames(wire[p]).frames) >= 2
        /\ Frames(wire[p]).rest # <<>>

\* C8: the values decoded from the stream are, in order, the values that
\* were encoded: at every moment the decoded values are the first of the
\* written ones, never more than were written in full; each encoding, taken
\* alone, has a header that gives the exact number of bytes of the body and
\* decodes to its value; and once all is written and the reader waits for
\* more bytes, every value was decoded and no byte is left over.
C8_FramingRoundTrip ==
    /\ Len(fr_out) <= fr_next - 1
    /\ \A i \in 1..Len(fr_out) : fr_out[i] = fr_vals[i]
    /\ fr_phase # "stopped"
    /\ \A i \in 1..Len(fr_vals) :
          LET body == ToJsonString(fr_vals[i])
              hdr == Trim(SubSeq(HeaderBytes(body), 1,
                                 FirstLF(HeaderBytes(body))))
          IN  /\ SplitOnce(hdr).key = ContentLengthKey
              /\ ParseUsize(SplitOnce(hdr).value) =
                    [ok |-> TRUE, n |-> Len(body)]
              /\ FromSlice(body) = Parsed(fr_vals[i], <<>>)
    /\ (fr_next > Len(fr_vals) /\ ReaderWaits)
          => (fr_out = fr_vals /\ fr_stream = <<>> /\ fr_phase = "headers")

\* C8 witness: two values were written and decoded, one of them a string
\* with a two-byte character in a body of ten bytes or more.
C8_Witness ==
    /\ Len(fr_vals) = 2 /\ fr_out = fr_vals
    /\ \E i \in 1..2 :
          /\ Len(ToJsonString(fr_vals[i])) >= 10
          /\ \E j \in 1..Len(ToJsonString(fr_vals[i])) :
                ToJsonString(fr_vals[i])[j] = "xC3"

\* C11: a shutdown() that found the client initialized returns Ok with the
\* client not initialized, holding no process, and with no backend process
\* running, whatever the shutdown request returned (a result, an error, a
\* timeout, a failed write), whether or not the exit notification could be
\* written, and whether the process exited within the grace period or was
\* killed after it.
C11_ShutdownFromInitialized ==
    \A c \in Callers :
        (pc[c] = "done" /\ op[c] = ShutdownMethod /\ sd.req # "none")
        => (/\ res[c] = "ok"
            /\ ~initialized
            /\ process = 0
            /\ \A p \in Pids : procs[p] # "running")

\* C11 witness: shutdown() has returned after its shutdown request timed
\* out and the process, still running after the grace period, was killed.
C11_Witness ==
    \E c \in Callers :
        /\ pc[c] = "done" /\ op[c] = ShutdownMethod
        /\ sd.req = "timeout" /\ sd.wait = "killed"

\* C13: the steps that end a timed-out per-operation request leave the
\* client initialized and leave the process held, its stdin, the reader
\* handle and every process and reader task as they were; and a request
\* whose awaited response has arrived completes with that result, also
\* after an earlier request has timed out.
C13_TimeoutRecoveredLocally ==
    [][ \A c \in Callers :
          /\ (op[c] \in PerOpMethods /\ pc[c] \in {"await", "timedout"}
                 /\ pc'[c] # pc[c] /\ chan[rid[c]] \in {"open", "gone"})
              => (/\ initialized /\ initialized'
                  /\ <<process, stdin, reader_handle, procs, readers>>' =
                        <<process, stdin, reader_handle, procs, readers>>)
          /\ (op[c] \in PerOpMethods /\ pc[c] = "await"
                 /\ chan[rid[c]] = "ok" /\ pc'[c] # "await")
              => (res'[c] = "ok" /\ pc'[c] = "sr_ret")
      ]_vars

\* C13 witness: on the process on which a request timed out, a later
\* request has returned the result that arrived for it.
C13_Witness ==
    \E c \in Callers :
        /\ pc[c] = "done" /\ op[c] \in PerOpMethods /\ res[c] = "ok"
        /\ timed_out
        /\ initialized /\ process # 0 /\ procs[process] = "running"
        /\ reader_handle = process /\ readers[process] = "running"

\* C9 (as claimed): when initialize() returns the failure of its handshake
\* (timeout or error response), the client is not initialized, holds no
\* process, and no backend process is running.
C9_FailedHandshakeTearsDown ==
    \A c \in Callers :
        (pc[c] = "done" /\ op[c] = InitializeMethod
            /\ res[c] \in {"timeout", "lsp_error"})
        => (/\ ~initialized
            /\ process = 0
            /\ \A p \in Pids : procs[p] # "running")

\* C10 (as claimed): whenever shutdown() returns, it returns Ok, the client
\* is not initialized and no backend process is running.
C10_ShutdownIdempotent ==
    \A c \in Callers :
        (pc[c] = "done" /\ op[c] = ShutdownMethod)
        => (/\ res[c] = "ok"
            /\ ~initialized
            /\ \A p \in Pids : procs[p] # "running")

\* The facade is gone and everything it started has ended.
FacadeEnded ==
    /\ dropped /\ lsp_client = 0
    /\ sd_pc \in {"none", "ended"}
    /\ \A t \in BgTasks : fpc[t] \in {"idle", "ended", "returned"}

\* C12: a client that has been dropped (by try_initialize_lsp or the
\* background task after a failed initialize, by the overwrite of the slot,
\* by the drop of the facade or of its shutdown task) has no backend process
\* left running: the process was killed by the drop, had been shut down, or
\* had exited; and when the facade is gone and its tasks have ended no
\* backend process of any of its clients is running.
C12_NoOrphanedBackend ==
    /\ \A k \in Cids : cl[k].st = "dropped" => cl[k].proc # "running"
    /\ FacadeEnded => Running = {}

\* C12 witness: the facade has been dropped with everything ended, one of
\* its clients was dropped after a failed lazy initialization, and the
\* running process of a dropped client was killed by the drop.
C12_Witness ==
    /\ FacadeEnded /\ lazy_failed
    /\ \E k \in Cids : cl[k].st = "dropped" /\ cl[k].proc = "killed"

\* What the client call gives when the backend answers with an error, does
\* not answer in time, or the transport fails.
BackendFailures ==
    {"not_initialized", "lsp_error", "timeout", "closed", "write_failed"}

C15_DisabledNeverSpawns ==
    ~use_lsp
    => (/\ created = 0 /\ lsp_client = 0
        /\ \A k \in Cids : cl[k] = NoClient
        /\ \A t \in FTasks :
               fpc[t] \notin {"check", "new", "spawn", "handshake",
                              "init_ok", "init_err", "store", "call"}
        /\ \A t \in FCallers :
               fpc[t] = "done"
               => (/\ found_none[t]
                   /\ fres[t] = Fallback(fop[t])
                   /\ fop[t] = "hover" => fres[t] = "none"
                   /\ fop[t] = "completions" => fres[t] = "empty_seq"))

\* C15 witness: with the toggle off, start_lsp_initialization has returned
\* and hover (or completions) has returned.
C15_Witness ==
    /\ ~use_lsp
    /\ \E t \in BgTasks : fpc[t] = "returned"
    /\ \E t \in FCallers : fpc[t] = "done" /\ fop[t] \in LazyOps

\* C16 (as claimed): whenever an operation of the facade has returned with
\* the toggle on and it found no client in the slot, it has attempted to
\* create and initialize one before it answered.
C16_LazyConnectEveryOp ==
    \A t \in FCallers :
        (fpc[t] = "done" /\ use_lsp /\ found_none[t]) => attempted[t]

\* C17 (as claimed): the first uses of one facade, by operations and by the
\* background initialization, never have more than one backend process
\* spawned and running at a time.
C17_SingleBackend == Cardinality(Running) <= 1

\* Positions of an operation inside try_initialize_lsp.
LazyInitPositions == {"new", "spawn", "handshake", "init_ok", "init_err"}

\* C18 (as claimed): once a lazy initialization has failed, no operation is
\* inside try_initialize_lsp again: the failure is remembered and the
\* backend is not spawned a second time.
C18_FailureCached ==
    lazy_failed => \A t \in FCallers : fpc[t] \notin LazyInitPositions

\* C19 (as claimed): whenever an operation of the facade has returned and
\* the client it found in the slot had a backend process that was no
\* longer running, the operation has attempted a fresh connect.
C19_DeadClientReconnects ==
    \A t \in FCallers :
        (fpc[t] = "done" /\ found_dead[t]) => attempted[t]

\* p is v - 1 as a number, for v >= 1.
IsPredecessor(p, v) ==
    \/ v.lo > 0 /\ p = [hi |-> v.hi, lo |-> v.lo - 1]
    \/ v.lo = 0 /\ v.hi > 0 /\ p = [hi |-> v.hi - 1, lo |-> Half - 1]

\* C20: for every position-based operation called with line L >= 1 and
\* column C >= 1, in either build, the position it sends is
\* (line L - 1, character C - 1); (1, 1) is sent as (0, 0) and (10, 5) as
\* (9, 4).
C20_CoordinateTranslation ==
    (co_sent # NotSent /\ co_line # U32(0) /\ co_column # U32(0))
    => (/\ co_sent.st = "sent"
        /\ IsPredecessor(co_sent.line, co_line)
        /\ IsPredecessor(co_sent.character, co_column)
        /\ (co_line = U32(1) /\ co_column = U32(1))
               => co_sent = PositionBuilt(U32(0), U32(0))
        /\ (co_line = U32(10) /\ co_column = U32(5))
               => co_sent = PositionBuilt(U32(9), U32(4)))

\* C20 witness: an operation called with (10, 5) has sent (9, 4).
C20_Witness ==
    /\ co_line = U32(10) /\ co_column = U32(5)
    /\ co_sent = PositionBuilt(U32(9), U32(4))

\* The line handled is a request (it carries an id) for get_hover with
\* line 0 and column 0, and handle_request has ended.
ZeroHoverHandled ==
    /\ json_value.line = "json"
    /\ json_value.has_id /\ json_value.has_method
    /\ json_value.method = "get_hover"
    /\ json_value.params =
           Object({"method"} \cup PositionKeys, "get_hover", "", "",
                  U32(0), U32(0))
    /\ reply # NoReply

\* C21 (as claimed): get_hover with line 0 and column 0 yields a response
\* with a result, not an error and not a crash, that echoes line 0 and
\* column 0, whether or not the slot holds a backend client.
C21_ZeroHandled ==
    ZeroHoverHandled
    => (/\ reply.st = "response"
        /\ "result" \in reply.keys
        /\ "error" \notin reply.keys
        /\ reply.result.line = U32(0)
        /\ reply.result.column = U32(0))

\* C25: every response handle_request produces for a request that carries
\* an id has jsonrpc "2.0", echoes the request's id, and has exactly one of
\* "result" and "error".
C25_ResponseForm ==
    (json_value.line = "json" /\ json_value.has_id /\ reply.st = "response")
    => (/\ {"jsonrpc", "id"} \subseteq reply.keys
        /\ reply.jsonrpc = "2.0"
        /\ reply.id = json_value.id
        /\ ("result" \in reply.keys) # ("error" \in reply.keys)
        /\ ("result" \in reply.keys) = (reply.result # Absent)
        /\ ("error" \in reply.keys) = (reply.error # Absent))

\* C25 witness: a request with id 2 has been answered with an error
\* response, and it is one a command handler failed on.
C25_Witness ==
    /\ json_value.line = "json" /\ json_value.has_id
    /\ json_value.id = JNum(2)
    /\ reply.st = "response"
    /\ "error" \in reply.keys
    /\ handled # {}

\* C26: a request whose method is neither a protocol method nor a
\* registered command is answered with an error response of code -32601
\* and no result, and no handler is invoked for it.
C26_MethodNotFound ==
    (/\ json_value.line = "json"
     /\ json_value.has_id /\ json_value.has_method
     /\ json_value.method \notin ProtocolMethods \cup commands
     /\ reply # NoReply)
    => (/\ reply.st = "response"
        /\ "error" \in reply.keys
        /\ reply.error.code = MethodNotFound
        /\ "result" \notin reply.keys
        /\ handled = {})

\* C26 witness: "unknown_method" has been answered with -32601.
C26_Witness ==
    /\ json_value.line = "json" /\ json_value.has_id
    /\ json_value.method = "unknown_method"
    /\ reply = ErrorResponse(json_value.id, MethodNotFound)

\* An array entry that carries text: a string, or an object with a string
\* "value".
IsTextEntry(e) ==
    \/ e.t = "str"
    \/ e.t = "obj" /\ "value" \in DOMAIN e.f /\ e.f.value.t = "str"
EntryText(e) == IF e.t = "str" THEN e.s ELSE e.f.value.s

\* The texts of the entries with a blank line between one and the next.
RECURSIVE EntriesText(_)
EntriesText(a) ==
    IF Len(a) = 0 THEN <<>>
    ELSE IF Len(a) = 1 THEN EntryText(a[1])
    ELSE EntriesText(SubSeq(a, 1, Len(a) - 1))
             \o <<"LF", "LF">> \o EntryText(a[Len(a)])

C27_ServerRequestDiscarded ==
    [][\A p \in Pids, m \in Incoming :
          (m.kind \in {"request", "notification"} /\ ReaderHandles(p, m))
          => (response_map' = response_map /\ chan' = chan)]_vars

\* C28: responses are matched by id only.  A response frame, whenever it
\* arrives, touches no entry and no channel but those of its own id; the
\* caller awaiting that id is given that frame's result or error; a
\* response whose id has no entry (late, after a timeout, or unknown)
\* changes nothing; and a caller that stops awaiting takes what was put on
\* the channel of its own id.
C28_MatchedById ==
    [][/\ \A p \in Pids, m \in Incoming :
             (m.kind \in {"result", "error"} /\ ReaderHandles(p, m))
             => (/\ \A k \in Ids \ {m.id} :
                       /\ chan'[k] = chan[k]
                       /\ (k \in response_map') = (k \in response_map)
                 /\ (m.id \in response_map /\ chan[m.id] = "open")
                       => chan'[m.id] =
                              (IF m.kind = "result" THEN "ok" ELSE "err")
                 /\ m.id \notin response_map
                       => (chan' = chan /\ response_map' = response_map))
       /\ \A c \in Callers :
             (pc[c] = "await" /\ pc'[c] = "sr_ret")
             => res'[c] = Outcome(chan[rid[c]])]_vars

\* C28 witness: a caller has been given the result of its own request
\* after a response arrived late for a request that had timed out.
C28_Witness ==
    /\ timed_out
    /\ \E c \in Callers :
          /\ pc[c] = "sr_ret" /\ res[c] = "ok" /\ rid[c] > FirstRequestId
          /\ chan[FirstRequestId] = "gone"

\* C29 (as claimed): every id in the map of pending requests belongs to a
\* call of send_request that has not returned, so that the map is empty
\* whenever no request is awaiting a response.
C29_NoDanglingEntry ==
    \A k \in response_map :
        \E c \in Callers : rid[c] = k /\ pc[c] \in InRequest

\* C30 (as claimed): a caller awaiting its response does not hold the lock
\* on the backend's stdin, and while it awaits, another caller that has
\* called an operation can go on to write its request.
C30_NoEndToEndSerialization ==
    \A a \in Callers :
        (pc[a] = "await" /\ op[a] \in PerOpMethods)
        => (/\ stdin_lock # a
            /\ \A b \in Callers \ {a} :
                  pc[b] = "lock"
                  => ENABLED (\E o \in PerOpMethods : Acquire(b, o)))

\* No reader task of any backend process is running.
NoReaderRunning == \A p \in Pids : readers[p] # "running"

\* What send_request returns when no response was delivered.
RequestErrors == {"timeout", "closed", "write_failed"}

\* C31 (as claimed): a reader task that has stopped (end of the stream or a
\* failed read) never runs again, and while no reader task runs no channel
\* receives a response; every request that is pending then, or issued
\* later, leaves send_request with a timeout, channel or transport error.
C31_NoCallerWaitsForever ==
    /\ [][\A p \in Pids : readers[p] = "stopped" => readers'[p] = "stopped"]_vars
    /\ [][NoReaderRunning =>
            \A i \in Ids : chan'[i] \in {"ok", "err"} => chan'[i] = chan[i]]_vars
    /\ \A c \in Callers :
          (pc[c] \in InRequest /\ rid[c] \in response_map /\ NoReaderRunning)
             ~> (pc[c] = "sr_ret" /\ res[c] \in RequestErrors)

\* The client is NotStarted: no process handle, no write handle, no reader
\* task handle, not initialized.
NotStarted ==
    process = 0 /\ stdin = 0 /\ reader_handle = 0 /\ ~initialized

\* C32: a step in which spawning the backend fails ends the initialize()
\* call with that error and changes nothing of the client: a client that was
\* NotStarted is still NotStarted, no process and no reader task was created,
\* nothing was written to any backend, no pending entry was added and the
\* next request id is the one it was.
C32_SpawnFailureIsTerminal ==
    [][\A c \in Callers : StartServerFails(c) =>
          /\ pc'[c] = "done" /\ res'[c] = "spawn_failed"
          /\ NotStarted => NotStarted'
          /\ UNCHANGED <<process, stdin, reader_handle, initialized>>
          /\ UNCHANGED <<spawned, procs, readers, wire, msgs>>
          /\ request_id' = request_id
          /\ response_map' = response_map
          /\ issued' = issued]_vars

C32_Witness ==
    /\ NotStarted
    /\ request_id = FirstRequestId
    /\ \E c \in Callers :
          pc[c] = "done" /\ op[c] = InitializeMethod /\ res[c] = "spawn_failed"

\* Where shutdown() stands: inside send_request("shutdown"), inside
\* send_notification("exit").
ShutdownRequestStage == {"sr", "wh", "wb", "await", "timedout", "sr_ret"}
ShutdownExitStage == {"nh", "nb", "n_ret"}

\* The messages written to process p hold the exit notification.
ExitWritten(p) ==
    \E i \in 1..Len(msgs[p]) : msgs[p][i] = Notification("exit")

\* C33: a shutdown() of an initialized client goes through its steps in
\* order.  While the shutdown request is written and awaited nothing else
\* has happened: no exit notification is written, the reader task is not
\* aborted, the process is held.  The exit notification is written only
\* when the outcome of the request is known; the reader task is aborted
\* only when the notification's write has returned; the wait for the
\* process and its kill come after the abort; and the client stays marked
\* initialized through all of them, until shutdown() returns.
C33_ShutdownOrder ==
    \A c \in Callers : op[c] = ShutdownMethod =>
        /\ pc[c] \in ShutdownRequestStage =>
              /\ initialized /\ sd = NoShutdown
              /\ process # 0 /\ ~ExitWritten(process)
              /\ reader_handle # 0 /\ readers[reader_handle] # "aborted"
        /\ pc[c] \in ShutdownExitStage =>
              /\ initialized
              /\ sd.req # "none" /\ sd.exit = "none" /\ sd.wait = "none"
              /\ process # 0
              /\ reader_handle # 0 /\ readers[reader_handle] # "aborted"
        /\ pc[c] = "sd_wait" =>
              /\ initialized
              /\ sd.req # "none" /\ sd.exit # "none" /\ sd.wait = "none"
              /\ reader_handle = 0 /\ readers[process] # "running"
              /\ process # 0
              /\ (sd.exit = "ok" /\ procs[process] = "running")
                    => ExitWritten(process)
        /\ pc[c] = "sd_mark" =>
              /\ initialized
              /\ sd.req # "none" /\ sd.exit # "none" /\ sd.wait # "none"
              /\ reader_handle = 0 /\ process = 0
              /\ \A p \in Pids : procs[p] # "running"
        /\ (pc[c] = "done" /\ sd.req # "none") =>
              /\ ~initialized
              /\ sd.exit # "none" /\ sd.wait # "none"

\* C33 witness: shutdown() stands between the abort of the reader task and
\* the wait for the process: request answered, exit notification written,
\* the process still running and the client still marked initialized.
C33_Witness ==
    \E c \in Callers :
        /\ op[c] = ShutdownMethod /\ pc[c] = "sd_wait"
        /\ sd.req = "ok" /\ sd.exit = "ok"
        /\ procs[process] = "running" /\ readers[process] = "aborted"
        /\ initialized

\* C34 (as claimed): between the calls on a client at most one backend
\* process is alive, each live process is the one the client holds and has
\* its reader task running, and no step of the reader task of an earlier
\* process changes the client's pending-request map.
C34_OneBackendOneReader ==
    /\ [](Cardinality({p \in Pids : procs[p] = "running"}) <= 1)
    /\ [](owner = 0 =>
            \A p \in Pids : procs[p] = "running"
                               => (p = process /\ readers[p] = "running"))
    /\ [][\A p \in Pids, m \in Incoming :
            (ReaderHandles(p, m) /\ p # reader_handle)
               => response_map' = response_map]_vars

\* The bodies of the well-formed frames among fs, in order.
RECURSIVE GoodBodies(_)
GoodBodies(fs) ==
    IF fs = <<>> THEN <<>>
    ELSE (IF Head(fs).hdr = "good" THEN <<Head(fs).v>> ELSE <<>>)
            \o GoodBodies(Tail(fs))

\* The backend has written all its frames and the reader waits for bytes.
AllRead == fr_next > Len(fr_vals) /\ fr_wpos = "header" /\ ReaderWaits

\* C35 (as claimed): the reader task never stops on a frame without a
\* Content-Length or with one that is no number; what it decodes are bodies
\* of well-formed frames only, in the order written; and only the malformed
\* frames are lost: once everything written is read, every well-formed
\* frame has been decoded.
C35_MalformedFrameOnly ==
    /\ fr_phase # "stopped"
    /\ Len(fr_out) <= Len(GoodBodies(SubSeq(fr_vals, 1, fr_next - 1)))
    /\ \A i \in 1..Len(fr_out) : fr_out[i] = GoodBodies(fr_vals)[i]
    /\ AllRead => fr_out = GoodBodies(fr_vals)

\* C36: every request that has any byte on a pipe carries an id that was
\* registered before; and from the registration on, through the write and
\* the await, the entry of a caller's request is in the pending-request map
\* unless the reader has already taken it out for a frame with that id (the
\* channel is then no longer open): the reader never misses a response
\* because the request's id is not registered yet.
C36_RegisteredBeforeWritten ==
    /\ \A p \in Pids : \A i \in 1..Len(msgs[p]) :
          msgs[p][i].id # 0 => \E j \in 1..Len(issued) : issued[j] = msgs[p][i].id
    /\ \A c \in Callers : pc[c] \in {"wh", "wb", "await"} =>
          /\ \E j \in 1..Len(issued) : issued[j] = rid[c]
          /\ rid[c] \in response_map \/ chan[rid[c]] # "open"

\* C36 witness: the header of a per-operation request is on the pipe, its
\* body is not yet, and the entry of its id is in the pending-request map
\* with its channel open.
C36_Witness ==
    \E c \in Callers :
        /\ pc[c] = "wb" /\ op[c] \in PerOpMethods
        /\ rid[c] \in response_map /\ chan[rid[c]] = "open"
        /\ \E i \in 1..Len(msgs[stdin]) : msgs[stdin][i].id = rid[c]

\* C37 (as claimed): when initialize() has returned, it has returned
\* success exactly if the client is initialized; after an error the client
\* is not initialized, so that send_request rejects per-operation calls.
C37_InitializedIffSuccess ==
    \A c \in Callers :
        (pc[c] = "done" /\ op[c] = InitializeMethod)
        => /\ (res[c] = "ok") <=> initialized
           /\ res[c] # "ok" =>
                 \A o \in PerOpMethods : ~SendRequestAccepts(initialized, o)

\* The clients that are in the slot of the facade.
Stored == {k \in Cids : cl[k].st = "stored"}

\* C38: the slot holds at most one client; the client it holds is one whose
\* initialize() returned Ok, and is initialized; a client that is still
\* being created or initialized in a task, or whose initialize() returned an
\* error, is not in the slot and never gets there.
C38_SlotHoldsInitialized ==
    /\ Cardinality(Stored) <= 1
    /\ Stored = (IF lsp_client = 0 THEN {} ELSE {lsp_client})
    /\ lsp_client # 0 => cl[lsp_client].init
    /\ \A t \in FTasks :
          (fcl[t] # 0 /\ fpc[t] \in {"spawn", "handshake", "init_err"})
             => (fcl[t] # lsp_client /\ cl[fcl[t]].st = "local")
    /\ \A k \in Cids : cl[k].st = "dropped" => k # lsp_client

\* C38 witness: an initialized client is in the slot after a lazy connect
\* had failed, and the client of a failed or replaced attempt was dropped.
C38_Witness ==
    /\ lsp_client # 0 /\ cl[lsp_client].init
    /\ lazy_failed
    /\ \E k \in Cids : cl[k].st = "dropped" /\ k # lsp_client

\* C39 (as claimed): a caller never asks for the client mutex while it
\* holds it, and every caller that has acquired the mutex for an operation
\* on the backend releases it: its operation returns and the guard is
\* dropped.
C39_NoDeadlockOnClientMutex ==
    /\ [](\A c \in Callers : owner = c => pc[c] # "lock")
    /\ \A c \in Callers :
          (owner = c /\ op[c] \in PerOpMethods) ~> (owner # c)

====
